---------------------------- MODULE Spec2Model ----------------------------
(***************************************************************************)
(* Recipe extraction from EPUB markup (src/app/recipes.py).                *)
(*                                                                         *)
(* Two pipelines are modelled:                                             *)
(*   - the generic one: BlockParser -> _extract_section ->                 *)
(*     _collect_recipe_from_section, driven by extract_epub_recipes;       *)
(*   - the specialized one: CrumbsParser, driven by                        *)
(*     extract_crumbs_doilies_recipes.                                     *)
(*                                                                         *)
(* Markup reaches both parsers as the event stream html.parser.HTMLParser  *)
(* produces (start tag with attributes, data, end tag); a document is a    *)
(* name and such an event sequence.  Text is kept as TLA+ strings and is   *)
(* handled character by character, as the Python string methods and the    *)
(* regular expressions of the source handle it.                            *)
(*                                                                         *)
(* Python's None is the value None below for optional strings, 0 for       *)
(* TextBlock.level, and the empty sequence for an optional dict.           *)
(***************************************************************************)
EXTENDS Integers, Sequences, FiniteSets, TLC

(***************************************************************************)
(* Python values and string methods                                        *)
(***************************************************************************)

\* Python's None where the code holds Optional[str].
None == "<None>"

\* bool(x) of an Optional[str]: None and "" are falsy.
Truthy(s) == s # None /\ s # ""

\* `x or ""` for an Optional[str].
OrEmpty(s) == IF s = None THEN "" ELSE s

Char(s, i) == SubSeq(s, i, i)

Drop(s, n) == SubSeq(s, n + 1, Len(s))

UpperLetters == "ABCDEFGHIJKLMNOPQRSTUVWXYZ"

LowerLetters == "abcdefghijklmnopqrstuvwxyz"

Digits == "0123456789"

\* The lower-case letter of each upper-case letter.
LowerOf ==
    [c \in { Char(UpperLetters, i) : i \in 1..26 } |->
        Char(LowerLetters, CHOOSE i \in 1..26 : Char(UpperLetters, i) = c)]

\* str.lower() of one character (ASCII).
LowerChar(c) == IF c \in DOMAIN LowerOf THEN LowerOf[c] ELSE c

RECURSIVE Lower(_)
\* str.lower(); re.IGNORECASE is matching on the lower-cased text.
Lower(s) == IF s = "" THEN "" ELSE LowerChar(Char(s, 1)) \o Lower(Drop(s, 1))

\* The characters str.strip() and str.split() treat as whitespace.
SpaceChars == { " ", "\n", "\t", "\r", "\f" }

IsSpace(c) == c \in SpaceChars

\* The characters the regular expression class \w matches.
WordChars ==
    { Char(UpperLetters, i) : i \in 1..26 } \cup { Char(LowerLetters, i) : i \in 1..26 }
    \cup { Char(Digits, i) : i \in 1..10 } \cup { "_" }

IsWordChar(c) == c \in WordChars

RECURSIVE LStripSpace(_)
LStripSpace(s) ==
    IF s # "" /\ IsSpace(Char(s, 1)) THEN LStripSpace(Drop(s, 1)) ELSE s

RECURSIVE RStripSpace(_)
RStripSpace(s) ==
    IF s # "" /\ IsSpace(Char(s, Len(s)))
    THEN RStripSpace(SubSeq(s, 1, Len(s) - 1))
    ELSE s

\* str.strip()
Strip(s) == RStripSpace(LStripSpace(s))

RECURSIVE LStripChar(_, _)
\* str.lstrip(c) for a one-character argument.
LStripChar(s, c) ==
    IF s # "" /\ Char(s, 1) = c THEN LStripChar(Drop(s, 1), c) ELSE s

RECURSIVE RStripChar(_, _)
\* str.rstrip(c) for a one-character argument.
RStripChar(s, c) ==
    IF s # "" /\ Char(s, Len(s)) = c
    THEN RStripChar(SubSeq(s, 1, Len(s) - 1), c)
    ELSE s

\* str.startswith(prefix)
StartsWith(s, prefix) ==
    Len(s) >= Len(prefix) /\ SubSeq(s, 1, Len(prefix)) = prefix

\* str.endswith(suffix)
EndsWith(s, suffix) ==
    Len(s) >= Len(suffix) /\ SubSeq(s, Len(s) - Len(suffix) + 1, Len(s)) = suffix

\* `sub in s`
Contains(s, sub) ==
    \E i \in 1..(Len(s) - Len(sub) + 1) : SubSeq(s, i, i + Len(sub) - 1) = sub

RECURSIVE Join(_, _)
\* sep.join(lines)
Join(lines, sep) ==
    IF lines = <<>> THEN ""
    ELSE IF Len(lines) = 1 THEN lines[1]
    ELSE lines[1] \o sep \o Join(Tail(lines), sep)

RECURSIVE SplitOn(_, _, _)
\* The pieces of s between characters of seps; the piece being read is cur.
SplitOn(s, seps, cur) ==
    IF s = "" THEN <<cur>>
    ELSE IF Char(s, 1) \in seps THEN <<cur>> \o SplitOn(Drop(s, 1), seps, "")
    ELSE SplitOn(Drop(s, 1), seps, cur \o Char(s, 1))

NonEmpty(pieces) == SelectSeq(pieces, LAMBDA p : p # "")

\* str.split() with no argument: the maximal runs of non-whitespace.
SplitSpace(s) == NonEmpty(SplitOn(s, SpaceChars, ""))

\* str.split("/")
SplitSlash(s) == SplitOn(s, { "/" }, "")

DigitChars == { Char(Digits, d) : d \in 1..10 }

\* str.isdigit() (ASCII)
IsDigitStr(s) == s # "" /\ \A i \in 1..Len(s) : Char(s, i) \in DigitChars

DigitValue(c) == (CHOOSE d \in 1..10 : Char(Digits, d) = c) - 1

RECURSIVE ToInt(_, _)
\* int(s) of a digit string, acc being the value of the digits already read.
ToInt(s, acc) ==
    IF s = "" THEN acc ELSE ToInt(Drop(s, 1), 10 * acc + DigitValue(Char(s, 1)))

\* " ".join(" ".join(buf).split()).strip()
NormalizeBuf(buf) == Strip(Join(SplitSpace(Join(buf, " ")), " "))

(***************************************************************************)
(* Regular expressions                                                     *)
(***************************************************************************)

\* The alternatives of IGNORE_TITLE_RE.
IGNORE_TITLE_WORDS ==
    { "acknowledg", "equipment", "conversion", "glossary", "index",
      "about the author", "contents", "introduction", "chapter",
      "bibliography", "notes", "preface" }

\* The alternatives of METHOD_RE.
METHOD_WORDS == { "method", "direction", "instruction", "preparation" }

\* \b at the gap before character i of s (i in 1..Len(s)+1): exactly one of
\* the two neighbouring characters is a word character.
WordBoundary(s, i) ==
    LET before == i > 1 /\ IsWordChar(Char(s, i - 1))
        after  == i <= Len(s) /\ IsWordChar(Char(s, i))
    IN  before # after

\* The positions at which word occurs in s.
Occurrences(s, word) ==
    { i \in 1..(Len(s) - Len(word) + 1) : SubSeq(s, i, i + Len(word) - 1) = word }

\* Mutation of IGNORE_TITLE_RE: the search without re.IGNORECASE.
IGNORE_TITLE_RE_CaseSensitive(text) ==
    \E w \in IGNORE_TITLE_WORDS : Occurrences(text, w) # {}

\* IGNORE_TITLE_RE.search(text): any alternative anywhere, ignoring case.
IGNORE_TITLE_RE(text) ==
    LET low == Lower(text)
    IN  \E w \in IGNORE_TITLE_WORDS : Occurrences(low, w) # {}

\* INGREDIENTS_RE.search(text): \bingredient, ignoring case.
INGREDIENTS_RE(text) ==
    LET low == Lower(text)
    IN  \E i \in Occurrences(low, "ingredient") : WordBoundary(text, i)

\* METHOD_RE.search(text): \b(method|direction|instruction|preparation)\b,
\* ignoring case.
METHOD_RE(text) ==
    LET low == Lower(text)
    IN  \E w \in METHOD_WORDS :
            \E i \in Occurrences(low, w) :
                WordBoundary(text, i) /\ WordBoundary(text, i + Len(w))

title_ignored(title) == IGNORE_TITLE_RE(title)

(***************************************************************************)
(* Paths                                                                   *)
(***************************************************************************)

\* The root PurePosixPath gives a path: "//" for exactly two leading
\* slashes, "/" for any other number of them, "" for a relative path.
PosixRoot(path) ==
    IF StartsWith(path, "//") /\ ~StartsWith(path, "///") THEN "//"
    ELSE IF StartsWith(path, "/") THEN "/"
    ELSE ""

\* The parts of a PurePosixPath after its root: empty and "." segments are
\* dropped, ".." segments are kept.
PosixParts(path) ==
    SelectSeq(SplitSlash(path), LAMBDA p : p # "" /\ p # ".")

\* str(PurePosixPath) of a root and parts.
PosixStr(root, parts) ==
    IF root = "" /\ parts = <<>> THEN "." ELSE root \o Join(parts, "/")

\* str((PurePosixPath(href).parent / src).as_posix()) for a src that does
\* not start with "/".
PurePosixParentJoin(href, src) ==
    LET parts  == PosixParts(href)
        parent == IF parts = <<>> THEN parts ELSE SubSeq(parts, 1, Len(parts) - 1)
    IN  PosixStr(PosixRoot(href), parent \o PosixParts(src))

\* The position after the last "/" of p (p.rfind("/") + 1), 0 if none.
AfterLastSlash(p) ==
    IF \E i \in 1..Len(p) : Char(p, i) = "/"
    THEN CHOOSE i \in 1..Len(p) :
            Char(p, i) = "/" /\ \A j \in (i + 1)..Len(p) : Char(p, j) # "/"
    ELSE 0

\* posixpath.dirname(p)
posixpath_dirname(p) ==
    LET head == SubSeq(p, 1, AfterLastSlash(p))
    IN  IF head # "" /\ LStripChar(head, "/") # "" THEN RStripChar(head, "/") ELSE head

\* posixpath.join(a, b)
posixpath_join(a, b) ==
    IF StartsWith(b, "/") THEN b
    ELSE IF a = "" \/ EndsWith(a, "/") THEN a \o b
    ELSE a \o "/" \o b

RECURSIVE NormComps(_, _, _)
\* The loop of posixpath.normpath over the components comps, new_comps being
\* the components kept so far.
NormComps(comps, new_comps, initial_slashes) ==
    IF comps = <<>> THEN new_comps
    ELSE LET comp == Head(comps)
             rest == Tail(comps)
         IN  IF comp = "" \/ comp = "." THEN NormComps(rest, new_comps, initial_slashes)
             ELSE IF \/ comp # ".."
                     \/ (initial_slashes = 0 /\ new_comps = <<>>)
                     \/ (new_comps # <<>> /\ new_comps[Len(new_comps)] = "..")
                  THEN NormComps(rest, Append(new_comps, comp), initial_slashes)
             ELSE IF new_comps # <<>>
                  THEN NormComps(rest, SubSeq(new_comps, 1, Len(new_comps) - 1),
                                 initial_slashes)
             ELSE NormComps(rest, new_comps, initial_slashes)

\* posixpath.normpath(path)
posixpath_normpath(path) ==
    IF path = "" THEN "."
    ELSE LET initial_slashes ==
                 IF StartsWith(path, "//") /\ ~StartsWith(path, "///") THEN 2
                 ELSE IF StartsWith(path, "/") THEN 1
                 ELSE 0
             joined == Join(NormComps(SplitSlash(path), <<>>, initial_slashes), "/")
             result == SubSeq("//", 1, initial_slashes) \o joined
         IN  IF result = "" THEN "." ELSE result

(***************************************************************************)
(* Markup events (what HTMLParser hands to the handlers)                   *)
(***************************************************************************)

\* A start tag with its attribute map: attr_map.get("class"), .get("id") and
\* .get("src"), each None when the attribute is absent.
StartEv(tag, class, id, src) ==
    [ev |-> "start", tag |-> tag, class |-> class, id |-> id, src |-> src, data |-> ""]

DataEv(data) ==
    [ev |-> "data", tag |-> "", class |-> None, id |-> None, src |-> None, data |-> data]

EndEv(tag) ==
    [ev |-> "end", tag |-> tag, class |-> None, id |-> None, src |-> None, data |-> ""]

\* <tag class=.. id=..>text</tag>
Elem(tag, class, id, text) == << StartEv(tag, class, id, None), DataEv(text), EndEv(tag) >>

\* <img src=.. />, which HTMLParser reports as a start tag and an end tag.
Img(src) == << StartEv("img", None, None, src), EndEv("img") >>

RECURSIVE Flatten(_)
\* The event sequence of a sequence of elements.
Flatten(elems) == IF elems = <<>> THEN <<>> ELSE Head(elems) \o Flatten(Tail(elems))

(***************************************************************************)
(* BlockParser                                                             *)
(***************************************************************************)

TextBlock(tag, text, level, element_id) ==
    [tag |-> tag, text |-> text, level |-> level, element_id |-> element_id]

\* TextBlock.is_heading
is_heading(block) == block.level # 0

\* BlockParser.__init__
BlockParser_init ==
    [blocks |-> <<>>, active_tag |-> None, active_id |-> None, buf |-> <<>>]

CAPTURABLE_TAGS == { "p", "li", "h1", "h2", "h3", "h4" }

\* Mutation of BlockParser.handle_starttag: without `if self._active_tag is
\* not None: return`, a capturable start tag replaces the active element.
BlockParser_handle_starttag_Nested(bp, e) ==
    IF e.tag = "img"
    THEN LET src == Strip(OrEmpty(e.src))
         IN  IF src # ""
             THEN [bp EXCEPT !.blocks = Append(@, TextBlock("img", src, 0, None))]
             ELSE bp
    ELSE IF e.tag \in CAPTURABLE_TAGS
         THEN [bp EXCEPT !.active_tag = e.tag, !.active_id = e.id, !.buf = <<>>]
    ELSE bp

\* Mutation of BlockParser.handle_starttag: an image inside an active element
\* is kept in the buffer instead of being appended to the blocks.
BlockParser_handle_starttag_ImageBuffered(bp, e) ==
    IF e.tag = "img"
    THEN LET src == Strip(OrEmpty(e.src))
         IN  IF src = "" THEN bp
             ELSE IF bp.active_tag # None THEN [bp EXCEPT !.buf = Append(@, src)]
             ELSE [bp EXCEPT !.blocks = Append(@, TextBlock("img", src, 0, None))]
    ELSE IF bp.active_tag # None THEN bp
    ELSE IF e.tag \in CAPTURABLE_TAGS
         THEN [bp EXCEPT !.active_tag = e.tag, !.active_id = e.id, !.buf = <<>>]
    ELSE bp

\* BlockParser.handle_starttag
BlockParser_handle_starttag(bp, e) ==
    IF e.tag = "img"
    THEN LET src == Strip(OrEmpty(e.src))
         IN  IF src # ""
             THEN [bp EXCEPT !.blocks = Append(@, TextBlock("img", src, 0, None))]
             ELSE bp
    ELSE IF bp.active_tag # None THEN bp
    ELSE IF e.tag \in CAPTURABLE_TAGS
         THEN [bp EXCEPT !.active_tag = e.tag, !.active_id = e.id, !.buf = <<>>]
    ELSE bp

\* BlockParser.handle_data
BlockParser_handle_data(bp, e) ==
    IF bp.active_tag = None THEN bp ELSE [bp EXCEPT !.buf = Append(@, e.data)]

\* The level handle_endtag gives a tag: int(tag[1:]) for "h" followed by
\* digits, None (0) otherwise.
TagLevel(tag) ==
    IF StartsWith(tag, "h") /\ IsDigitStr(Drop(tag, 1)) THEN ToInt(Drop(tag, 1), 0) ELSE 0

\* BlockParser.handle_endtag
BlockParser_handle_endtag(bp, e) ==
    IF e.tag # bp.active_tag THEN bp
    ELSE LET text == NormalizeBuf(bp.buf)
             emitted ==
                 IF text # ""
                 THEN Append(bp.blocks,
                             TextBlock(e.tag, text, TagLevel(e.tag), bp.active_id))
                 ELSE bp.blocks
         IN  [blocks |-> emitted, active_tag |-> None, active_id |-> None, buf |-> <<>>]

\* The handler HTMLParser calls for one event.
BlockParser_handle(bp, e) ==
    IF e.ev = "start" THEN BlockParser_handle_starttag(bp, e)
    ELSE IF e.ev = "data" THEN BlockParser_handle_data(bp, e)
    ELSE BlockParser_handle_endtag(bp, e)

RECURSIVE BlockParser_feed(_, _)
\* parser.feed(html): the handlers in event order.
BlockParser_feed(bp, html) ==
    IF html = <<>> THEN bp
    ELSE BlockParser_feed(BlockParser_handle(bp, Head(html)), Tail(html))

\* _parse_blocks
parse_blocks(html) == BlockParser_feed(BlockParser_init, html).blocks

(***************************************************************************)
(* Section segmenter and generic classifier                                *)
(***************************************************************************)

RECURSIVE extract_section_loop(_, _, _)
\* The loop of _extract_section over the remaining blocks; current is the
\* open section (<<>> for None), sections those already closed.
extract_section_loop(blocks, current, sections) ==
    IF blocks = <<>> THEN sections \o current
    ELSE LET block == Head(blocks)
         IN  IF is_heading(block) /\ block.level # 0 /\ block.level <= 3
             THEN extract_section_loop(
                      Tail(blocks),
                      << [title |-> block.text, title_id |-> block.element_id,
                          blocks |-> <<>>] >>,
                      sections \o current)
             ELSE IF current # <<>>
                  THEN extract_section_loop(
                           Tail(blocks),
                           << [current[1] EXCEPT !.blocks = Append(@, block)] >>,
                           sections)
             ELSE extract_section_loop(Tail(blocks), current, sections)

RECURSIVE extract_section_loop_Level2(_, _, _)
\* Mutation of the loop of _extract_section: only headings of level 2 or
\* less start a section, so level-3 headings stay inside sections.
extract_section_loop_Level2(blocks, current, sections) ==
    IF blocks = <<>> THEN sections \o current
    ELSE LET block == Head(blocks)
         IN  IF is_heading(block) /\ block.level # 0 /\ block.level <= 2
             THEN extract_section_loop_Level2(
                      Tail(blocks),
                      << [title |-> block.text, title_id |-> block.element_id,
                          blocks |-> <<>>] >>,
                      sections \o current)
             ELSE IF current # <<>>
                  THEN extract_section_loop_Level2(
                           Tail(blocks),
                           << [current[1] EXCEPT !.blocks = Append(@, block)] >>,
                           sections)
             ELSE extract_section_loop_Level2(Tail(blocks), current, sections)

\* Mutation of _extract_section: sections start at headings of level 2 or
\* less only.
extract_section_Level2(blocks) == extract_section_loop_Level2(blocks, <<>>, <<>>)

\* Mutation of _extract_section: without the final `if current:
\* sections.append(current)`, so the section open at the end is lost.
extract_section_DropsLast(blocks) ==
    LET found == extract_section_loop(blocks, <<>>, <<>>)
    IN  SubSeq(found, 1, Len(found) - 1)

\* _extract_section
extract_section(blocks) == extract_section_loop(blocks, <<>>, <<>>)

\* The locals of _collect_recipe_from_section before its loop.
CollectInit ==
    [ingredients |-> <<>>, method |-> <<>>, current_bucket |-> None, image_href |-> None]

\* One iteration of the loop of _collect_recipe_from_section.
CollectStep(st, block, href) ==
    IF block.tag = "img" /\ ~Truthy(st.image_href)
    THEN LET src == Strip(block.text)
         IN  IF src = "" \/ StartsWith(src, "data:") \/ Contains(src, "://") THEN st
             ELSE IF StartsWith(src, "/")
                  THEN [st EXCEPT !.image_href = LStripChar(src, "/")]
             ELSE [st EXCEPT !.image_href = PurePosixParentJoin(href, src)]
    ELSE IF is_heading(block)
         THEN IF INGREDIENTS_RE(block.text) THEN [st EXCEPT !.current_bucket = "ingredients"]
              ELSE IF METHOD_RE(block.text) THEN [st EXCEPT !.current_bucket = "method"]
              ELSE [st EXCEPT !.current_bucket = None]
    ELSE IF st.current_bucket = "ingredients"
         THEN [st EXCEPT !.ingredients = Append(@, block.text)]
    ELSE IF st.current_bucket = "method"
         THEN [st EXCEPT !.method = Append(@, block.text)]
    ELSE st

RECURSIVE CollectLoop(_, _, _)
\* The loop of _collect_recipe_from_section over the section's blocks.
CollectLoop(st, blocks, href) ==
    IF blocks = <<>> THEN st
    ELSE CollectLoop(CollectStep(st, Head(blocks), href), Tail(blocks), href)

\* `text or None`
OrNone(text) == IF text = "" THEN None ELSE text

\* Mutation of SourceKey: the fragment is appended for every identifier
\* that is not None, the empty one included.
SourceKey_EmptyFragment(href, id) == IF id # None THEN href \o "#" \o id ELSE href

\* f"{href}#{id}" if the identifier is truthy, else href: the source_key of
\* _collect_recipe_from_section and of CrumbsParser._finish_recipe.
SourceKey(href, id) == IF Truthy(id) THEN href \o "#" \o id ELSE href

\* Mutation of _collect_recipe_from_section: without `if not method: return
\* None`.
collect_recipe_from_section_NoMethodCheck(section, href) ==
    LET title == Strip(OrEmpty(section.title))
        st    == CollectLoop(CollectInit, section.blocks, href)
        source_key == SourceKey(href, section.title_id)
    IN  IF title = "" \/ title_ignored(title) THEN <<>>
        ELSE << [title            |-> title,
                 ingredients_text |-> OrNone(Strip(Join(st.ingredients, "\n"))),
                 method_text      |-> Strip(Join(st.method, "\n")),
                 source_type      |-> "epub",
                 source_key       |-> source_key,
                 image_href       |-> st.image_href,
                 location_type    |-> "href",
                 location_value   |-> source_key] >>

\* Mutation of _collect_recipe_from_section: location_value is the
\* document name, without the fragment.
collect_recipe_from_section_LocationIsHref(section, href) ==
    LET title == Strip(OrEmpty(section.title))
        st    == CollectLoop(CollectInit, section.blocks, href)
        source_key == SourceKey(href, section.title_id)
    IN  IF title = "" \/ title_ignored(title) THEN <<>>
        ELSE IF st.method = <<>> THEN <<>>
        ELSE << [title            |-> title,
                 ingredients_text |-> OrNone(Strip(Join(st.ingredients, "\n"))),
                 method_text      |-> Strip(Join(st.method, "\n")),
                 source_type      |-> "epub",
                 source_key       |-> source_key,
                 image_href       |-> st.image_href,
                 location_type    |-> "href",
                 location_value   |-> href] >>

\* _collect_recipe_from_section: <<>> for None, else the one record.
collect_recipe_from_section(section, href) ==
    LET title == Strip(OrEmpty(section.title))
        st    == CollectLoop(CollectInit, section.blocks, href)
        source_key == SourceKey(href, section.title_id)
    IN  IF title = "" \/ title_ignored(title) THEN <<>>
        ELSE IF st.method = <<>> THEN <<>>
        ELSE << [title            |-> title,
                 ingredients_text |-> OrNone(Strip(Join(st.ingredients, "\n"))),
                 method_text      |-> Strip(Join(st.method, "\n")),
                 source_type      |-> "epub",
                 source_key       |-> source_key,
                 image_href       |-> st.image_href,
                 location_type    |-> "href",
                 location_value   |-> source_key] >>

\* Mutation of _is_crumbs_doilies: one of the two substrings is enough.
is_crumbs_doilies_EitherSubstring(epub_name) ==
    LET name == Lower(epub_name)
    IN  Contains(name, "crumbs") \/ Contains(name, "doilies")

\* _is_crumbs_doilies, of the file name of epub_path.
is_crumbs_doilies(epub_name) ==
    LET name == Lower(epub_name)
    IN  Contains(name, "crumbs") /\ Contains(name, "doilies")

(***************************************************************************)
(* CrumbsParser                                                            *)
(***************************************************************************)

\* CrumbsParser.__init__
CrumbsParser_init(href) ==
    [href |-> href, recipes |-> <<>>, current |-> <<>>, capture |-> None,
     buf |-> <<>>, ingredient_section |-> None, in_tip |-> FALSE,
     pending_recipe_id |-> None]

\* CrumbsParser._finish_recipe
CrumbsParser_finish_recipe(cp) ==
    IF cp.current = <<>> THEN cp
    ELSE LET cur       == cp.current[1]
             title     == Strip(OrEmpty(cur.title))
             recipe_id == cur.id
             method    == cur.method
             source_key == SourceKey(cp.href, recipe_id)
         IN  IF title = "" \/ method = <<>> THEN [cp EXCEPT !.current = <<>>]
             ELSE [cp EXCEPT
                     !.recipes = Append(@,
                         [title            |-> title,
                          ingredients_text |-> OrNone(Strip(Join(cur.ingredients, "\n"))),
                          method_text      |-> Strip(Join(method, "\n")),
                          source_type      |-> "epub:crumbs_doilies",
                          source_key       |-> source_key,
                          location_type    |-> "href",
                          location_value   |-> source_key,
                          image_href       |-> cur.image_href]),
                     !.current = <<>>]

\* CrumbsParser._start_recipe
CrumbsParser_start_recipe(cp, title, recipe_id) ==
    LET fin == IF cp.current # <<>> THEN CrumbsParser_finish_recipe(cp) ELSE cp
    IN  [fin EXCEPT
            !.current = << [title |-> title, id |-> recipe_id, ingredients |-> <<>>,
                            method |-> <<>>, image_href |-> None] >>,
            !.ingredient_section = None,
            !.in_tip = FALSE]

\* Mutation of CrumbsParser._push_text: a title is pushed whether or not a
\* recipe is in flight, and the method modes do not test _in_tip.
CrumbsParser_push_text_TipKept(cp, text) ==
    IF cp.capture = "recipe_title"
    THEN IF Strip(text) # ""
         THEN CrumbsParser_start_recipe(cp, Strip(text), cp.pending_recipe_id)
         ELSE cp
    ELSE IF cp.current = <<>> THEN cp
    ELSE IF cp.capture \in { "method_heading", "method" }
         THEN IF Strip(text) # ""
              THEN [cp EXCEPT !.current[1].method = Append(@, Strip(text))]
              ELSE cp
    ELSE cp

\* CrumbsParser._push_text
CrumbsParser_push_text(cp, text) ==
    IF cp.current = <<>> THEN cp
    ELSE IF cp.capture = "ingredient_header"
         THEN LET heading == Strip(text)
              IN  IF heading # "" THEN [cp EXCEPT !.ingredient_section = heading] ELSE cp
    ELSE IF cp.capture = "ingredient_item"
         THEN LET line == Strip(text)
                  ingredients == cp.current[1].ingredients
                  labelled ==
                      IF /\ Truthy(cp.ingredient_section)
                         /\ (\/ ingredients = <<>>
                             \/ ingredients[Len(ingredients)] # cp.ingredient_section)
                      THEN Append(ingredients, cp.ingredient_section)
                      ELSE ingredients
              IN  IF line # ""
                  THEN [cp EXCEPT !.current[1].ingredients = Append(labelled, line)]
                  ELSE cp
    ELSE IF cp.capture = "method_heading"
         THEN LET heading == Strip(text)
              IN  IF heading # "" /\ ~cp.in_tip
                  THEN [cp EXCEPT !.current[1].method = Append(@, heading)]
                  ELSE cp
    ELSE IF cp.capture = "method"
         THEN LET line == Strip(text)
              IN  IF line # "" /\ ~cp.in_tip
                  THEN [cp EXCEPT !.current[1].method = Append(@, line)]
                  ELSE cp
    ELSE IF cp.capture = "recipe_title"
         THEN LET title == Strip(text)
              IN  IF title # ""
                  THEN CrumbsParser_start_recipe(cp, title, cp.pending_recipe_id)
                  ELSE cp
    ELSE cp

\* (attr_map.get("class") or "").split()
Classes(e) == SplitSpace(OrEmpty(e.class))

HasClass(e, c) == \E i \in 1..Len(Classes(e)) : Classes(e)[i] = c

\* The classes of a `p` that start a method capture.
METHOD_P_CLASSES == { "method", "method2", "rec_intro", "no_indent" }

\* CrumbsParser.handle_starttag
CrumbsParser_handle_starttag(cp, e) ==
    IF e.tag = "h2" /\ HasClass(e, "rec_head")
    THEN [cp EXCEPT !.capture = "recipe_title", !.buf = <<>>, !.pending_recipe_id = e.id]
    ELSE IF e.tag = "h5" /\ HasClass(e, "ingredient_header")
    THEN [cp EXCEPT !.capture = "ingredient_header", !.buf = <<>>]
    ELSE IF e.tag = "li" /\ HasClass(e, "ingred")
    THEN [cp EXCEPT !.capture = "ingredient_item", !.buf = <<>>]
    ELSE IF e.tag = "h4" /\ HasClass(e, "rec_subhead")
    THEN [cp EXCEPT !.in_tip = FALSE, !.capture = "method_heading", !.buf = <<>>]
    ELSE IF e.tag = "h4" /\ HasClass(e, "tip_head")
    THEN [cp EXCEPT !.capture = "method_heading", !.buf = <<>>, !.in_tip = TRUE]
    ELSE IF e.tag = "p" /\ \E c \in METHOD_P_CLASSES : HasClass(e, c)
    THEN [cp EXCEPT !.capture = "method", !.buf = <<>>]
    ELSE IF /\ e.tag = "img"
            /\ cp.current # <<>>
            /\ ~Truthy(cp.current[1].image_href)
    THEN LET src == Strip(OrEmpty(e.src))
         IN  IF src # "" /\ ~StartsWith(src, "data:") /\ ~Contains(src, "://")
             THEN [cp EXCEPT !.current[1].image_href =
                      LStripChar(
                          posixpath_normpath(
                              posixpath_join(posixpath_dirname(cp.href), src)),
                          "/")]
             ELSE cp
    ELSE cp

\* CrumbsParser.handle_data
CrumbsParser_handle_data(cp, e) ==
    IF ~Truthy(cp.capture) THEN cp ELSE [cp EXCEPT !.buf = Append(@, e.data)]

\* CrumbsParser.handle_endtag
CrumbsParser_handle_endtag(cp, e) ==
    IF ~Truthy(cp.capture) THEN cp
    ELSE LET text   == NormalizeBuf(cp.buf)
             pushed == IF text # "" THEN CrumbsParser_push_text(cp, text) ELSE cp
         IN  [pushed EXCEPT !.capture = None, !.buf = <<>>]

\* The handler HTMLParser calls for one event.
CrumbsParser_handle(cp, e) ==
    IF e.ev = "start" THEN CrumbsParser_handle_starttag(cp, e)
    ELSE IF e.ev = "data" THEN CrumbsParser_handle_data(cp, e)
    ELSE CrumbsParser_handle_endtag(cp, e)

RECURSIVE CrumbsParser_feed(_, _)
\* parser.feed(html): the handlers in event order.
CrumbsParser_feed(cp, html) ==
    IF html = <<>> THEN cp
    ELSE CrumbsParser_feed(CrumbsParser_handle(cp, Head(html)), Tail(html))

\* Mutation of LimitReached: the comparison is strict.
LimitReached_Strict(n, max) == max # 0 /\ n > max

\* `max_recipes and len(recipes) >= max_recipes`, n being len(recipes).
LimitReached(n, max) == max # 0 /\ n >= max

RECURSIVE AppendFiltered(_, _, _)
\* The loop `for recipe in parser.recipes` of extract_crumbs_doilies_recipes:
\* the result list and whether the loop returned at the max_recipes limit.
AppendFiltered(acc, found, max) ==
    IF found = <<>> THEN [recipes |-> acc, returned |-> FALSE]
    ELSE IF title_ignored(OrEmpty(Head(found).title))
         THEN AppendFiltered(acc, Tail(found), max)
    ELSE LET next == Append(acc, Head(found))
         IN  IF LimitReached(Len(next), max)
             THEN [recipes |-> next, returned |-> TRUE]
             ELSE AppendFiltered(next, Tail(found), max)

\* `"chapter" not in href or "_01" not in href` is false for the document.
CrumbsEligible(href) == Contains(href, "chapter") /\ Contains(href, "_01")

(***************************************************************************)
(* Bounds and inputs                                                       *)
(***************************************************************************)

\* Longest enumerated document, in elements.
MaxElems == 4

\* Longest spine of the books built from the sample documents.
MaxDocs == 2

\* Largest max_recipes (0 stands for None, as `if max_recipes` reads it).
MaxN == 2

\* Most events fed to one CrumbsParser in the event-driven specification.
MaxEvents == 6

\* Most events fed to one BlockParser in the event-driven specification.
MaxBlockEvents == 5

SeqsUpTo(S, n) == UNION { [1..k -> S] : k \in 0..n }

\* A document the archive reader supplies: item.get_name() and the events
\* of item.get_content().
Doc(name, html) == [name |-> name, html |-> html, avail |-> "ok"]

\* A spine entry the archive reader does not supply, avail telling how:
\*   "lookup_raises"  : book.get_item_with_id raises;
\*   "no_item"        : book.get_item_with_id returns None;
\*   "empty"          : item.get_content() is empty;
\*   "content_raises" : item.get_content() raises.
\* name and html are what the entry would give if it could be read.
Unavailable(name, html, avail) == [name |-> name, html |-> html, avail |-> avail]

\* One iteration of the loop of _iter_spine_docs for a spine entry: the
\* entry is yielded, skipped (`continue`), or an exception leaves the
\* generator.
iter_spine_docs(doc) ==
    IF doc.avail = "lookup_raises" THEN "continue"
    ELSE IF doc.avail = "no_item" THEN "continue"
    ELSE IF doc.avail = "content_raises" THEN "raise"
    ELSE IF doc.avail = "empty" THEN "continue"
    ELSE "yield"

Book(epub_name, spine) == [epub_name |-> epub_name, spine |-> spine]

GenericName == "cookbook.epub"

CrumbsName == "Crumbs_and_Doilies.epub"

\* The elements of the enumerated documents of the generic pipeline.
GenericElems ==
    { Elem("h2", None, "r1", "Apple Pie"),
      Elem("h2", None, None, "Index"),
      Elem("h4", None, None, "Ingredients"),
      Elem("h4", None, None, "Method"),
      Elem("p", None, None, "Peel apples."),
      Img("img/pie.jpg"),
      Img("data:image/png;base64,AA"),
      Img("http://x.org/a.png") }

GenericDocs ==
    { Doc("recipes/ch1.xhtml", Flatten(es)) : es \in SeqsUpTo(GenericElems, MaxElems) }

\* Spec scenario 1.
Scenario1Doc ==
    Doc("ch1.xhtml",
        Flatten(<< Elem("h2", None, None, "Apple Pie"),
                   Elem("h3", None, None, "Ingredients"),
                   Elem("li", None, None, "2 apples"),
                   Elem("li", None, None, "1 cup sugar"),
                   Elem("h3", None, None, "Method"),
                   Elem("p", None, None, "Peel apples."),
                   Elem("p", None, None, "Bake at 350.") >>))

\* Scenario 1 with the two subheadings at level 4.
Scenario1H4Doc ==
    Doc("ch1.xhtml",
        Flatten(<< Elem("h2", None, None, "Apple Pie"),
                   Elem("h4", None, None, "Ingredients"),
                   Elem("li", None, None, "2 apples"),
                   Elem("li", None, None, "1 cup sugar"),
                   Elem("h4", None, None, "Method"),
                   Elem("p", None, None, "Peel apples."),
                   Elem("p", None, None, "Bake at 350.") >>))

\* A recipe whose first image has the source "/".
SlashImageDoc ==
    Doc("recipes/ch1.xhtml",
        Flatten(<< Elem("h2", None, None, "Apple Pie"),
                   Img("/"),
                   Img("img/pie.jpg"),
                   Elem("h4", None, None, "Method"),
                   Elem("p", None, None, "Peel apples.") >>))

\* Spec scenario 4: two recipe headings with the identifiers r1 and r2.
Scenario4Doc ==
    Doc("ch1.xhtml",
        Flatten(<< Elem("h2", None, "r1", "Scones"),
                   Elem("h4", None, None, "Method"),
                   Elem("p", None, None, "Rub in butter."),
                   Elem("h2", None, "r2", "Jam"),
                   Elem("h4", None, None, "Method"),
                   Elem("p", None, None, "Boil fruit.") >>))

\* A recipe heading whose id attribute is the empty string.
EmptyIdDoc ==
    Doc("ch1.xhtml",
        Flatten(<< Elem("h2", None, "", "Apple Pie"),
                   Elem("h4", None, None, "Method"),
                   Elem("p", None, None, "Peel apples.") >>))

\* A recipe whose image source climbs out of the document's directory.
DotDotImageDoc ==
    Doc("recipes/ch1.xhtml",
        Flatten(<< Elem("h2", None, None, "Apple Pie"),
                   Img("../img/pie.jpg"),
                   Elem("h4", None, None, "Method"),
                   Elem("p", None, None, "Peel apples.") >>))

\* A recipe whose method subheading is a plural form.
DirectionsDoc ==
    Doc("ch1.xhtml",
        Flatten(<< Elem("h2", None, None, "Apple Pie"),
                   Elem("h4", None, None, "Directions"),
                   Elem("p", None, None, "Peel apples.") >>))

ScenarioDocs ==
    { Scenario1Doc, Scenario1H4Doc, SlashImageDoc, Scenario4Doc, EmptyIdDoc,
      DotDotImageDoc, DirectionsDoc }

\* Sample documents giving no, one and two records.
NoRecipeDoc ==
    Doc("ch0.xhtml",
        Flatten(<< Elem("h1", None, None, "Introduction"),
                   Elem("h4", None, None, "Method"),
                   Elem("p", None, None, "Read on.") >>))

OneRecipeDoc ==
    Doc("ch1.xhtml",
        Flatten(<< Elem("h2", None, "r1", "Apple Pie"),
                   Elem("h4", None, None, "Method"),
                   Elem("p", None, None, "Peel apples.") >>))

TwoRecipeDoc ==
    Doc("ch2.xhtml",
        Flatten(<< Elem("h2", None, "r1", "Scones"),
                   Elem("h4", None, None, "Method"),
                   Elem("p", None, None, "Rub in butter."),
                   Elem("h2", None, "r2", "Jam"),
                   Elem("h4", None, None, "Method"),
                   Elem("p", None, None, "Boil fruit.") >>))

\* A recipe followed by a paragraph that is never closed.
UnclosedTailDoc ==
    Doc("ch3.xhtml",
        Flatten(<< Elem("h2", None, None, "Trifle"),
                   Elem("h4", None, None, "Method"),
                   Elem("p", None, None, "Layer it.") >>)
            \o << StartEv("p", None, None, None), DataEv("Serves 4") >>)

\* Spine entries the archive reader cannot supply, one of each kind; each
\* would give a record if it were read.
UnavailableDocs ==
    { Unavailable("ch4.xhtml", OneRecipeDoc.html, a) :
        a \in { "lookup_raises", "no_item", "content_raises" } }
    \cup { Unavailable("ch4.xhtml", <<>>, "empty") }

SampleDocs ==
    { NoRecipeDoc, OneRecipeDoc, TwoRecipeDoc, UnclosedTailDoc } \cup UnavailableDocs

\* The elements of the enumerated documents of the specialized pipeline.
CrumbsElems ==
    { Elem("h2", "rec_head", "r1", "Apple Pie"),
      Elem("h5", "ingredient_header", None, "For the crust"),
      Elem("li", "ingred", None, "2 apples"),
      Elem("h4", "rec_subhead", None, "Method"),
      Elem("h4", "tip_head", None, "Tip"),
      Elem("p", "method", None, "Peel apples."),
      Img("img/pie.jpg") }

CrumbsDocs ==
    { Doc("chapter_01.xhtml", Flatten(es)) : es \in SeqsUpTo(CrumbsElems, MaxElems - 1) }

\* A title marker followed by a method paragraph.
CrumbsTitleDoc ==
    Doc("chapter_01.xhtml",
        Flatten(<< Elem("h2", "rec_head", None, "Apple Pie"),
                   Elem("p", "method", None, "Peel apples.") >>))

\* Spec scenario 5: tip text X, then method text Y under a normal subheading.
CrumbsTipDoc ==
    Doc("chapter_01.xhtml",
        Flatten(<< Elem("h2", "rec_head", "r1", "Apple Pie"),
                   Elem("h4", "tip_head", None, "Tip"),
                   Elem("p", "method", None, "Use cold butter."),
                   Elem("h4", "rec_subhead", None, "Method"),
                   Elem("p", "method", None, "Peel apples.") >>))

\* A document of a specialized book that the document-selection rule skips.
CrumbsOtherDoc ==
    Doc("cover.xhtml",
        Flatten(<< Elem("h2", "rec_head", None, "Apple Pie"),
                   Elem("p", "method", None, "Peel apples.") >>))

\* A document that ends inside a tip heading that is never closed.
CrumbsOpenTipDoc ==
    Doc("chapter_01.xhtml",
        Flatten(<< Elem("h2", "rec_head", "r1", "Apple Pie"),
                   Elem("h5", "ingredient_header", None, "For the crust") >>)
            \o << StartEv("h4", "tip_head", None, None), DataEv("Tip") >>)

CrumbsSampleDocs ==
    { CrumbsTitleDoc, CrumbsTipDoc, CrumbsOtherDoc, CrumbsOpenTipDoc,
      Unavailable("chapter_01.xhtml", CrumbsTitleDoc.html, "no_item"),
      Unavailable("chapter_01.xhtml", CrumbsTitleDoc.html, "content_raises") }

\* A recipe followed by a title marker whose text is blank and by a further
\* method paragraph.
CrumbsBlankTitleDoc ==
    Doc("chapter_01.xhtml",
        Flatten(<< Elem("h2", "rec_head", "r1", "Apple Pie"),
                   Elem("p", "method", None, "Peel apples."),
                   Elem("h2", "rec_head", "r2", " "),
                   Elem("p", "method", None, "Bake at 350.") >>))

\* A recipe with two ingredient items under a subsection header.
CrumbsSubsectionDoc ==
    Doc("chapter_01.xhtml",
        Flatten(<< Elem("h2", "rec_head", "r1", "Apple Pie"),
                   Elem("h5", "ingredient_header", None, "For the crust"),
                   Elem("li", "ingred", None, "2 apples"),
                   Elem("li", "ingred", None, "1 cup sugar"),
                   Elem("p", "method", None, "Peel apples.") >>))

\* A subsection header at the end of one recipe, followed by a recipe with
\* one ingredient item and no header.
CrumbsLabelResetDoc ==
    Doc("chapter_01.xhtml",
        Flatten(<< Elem("h2", "rec_head", "r1", "Apple Pie"),
                   Elem("h5", "ingredient_header", None, "For the crust"),
                   Elem("h2", "rec_head", "r2", "Jam"),
                   Elem("li", "ingred", None, "Fruit"),
                   Elem("p", "method", None, "Boil fruit.") >>))

\* Scenario documents of the specialized pipeline.
CrumbsScenarioDocs ==
    { CrumbsBlankTitleDoc, CrumbsSubsectionDoc, CrumbsLabelResetDoc }

\* A document both pipelines can read: the markers of the template on
\* elements the generic pipeline captures, in an eligible document.
MixedDoc ==
    Doc("chapter_01.xhtml",
        Flatten(<< Elem("h2", "rec_head", "r1", "Apple Pie"),
                   Elem("h4", "rec_subhead", None, "Method"),
                   Elem("p", "method", None, "Peel apples.") >>))

\* File names with none, one and both of the substrings of the template,
\* in either case and order.
BookNames ==
    { GenericName, CrumbsName, "crumbs.epub", "Doilies.epub", "DOILIES & CRUMBS.EPUB" }

\* Books that differ in their file name only.
NamedBooks ==
    { Book(n, s) : n \in BookNames,
                   s \in { << MixedDoc >>, << OneRecipeDoc, MixedDoc >>,
                           << CrumbsOtherDoc, MixedDoc >> } }

\* Books of one enumerated or scenario document.
DocBooks ==
    { Book(GenericName, << d >>) : d \in GenericDocs \cup ScenarioDocs }
    \cup { Book(CrumbsName, << d >>) : d \in CrumbsDocs \cup CrumbsScenarioDocs }

\* Books of up to MaxDocs sample documents.
SampleBooks ==
    { Book(GenericName, s) : s \in SeqsUpTo(SampleDocs, MaxDocs) }
    \cup { Book(CrumbsName, s) : s \in SeqsUpTo(CrumbsSampleDocs, MaxDocs) }

\* The calls of extract_epub_recipes explored: every one-document book and
\* every named book read without a limit, every sample book read with every
\* limit up to MaxN.
Calls ==
    { [book |-> b, max_recipes |-> 0] : b \in DocBooks \cup NamedBooks }
    \cup { [book |-> b, max_recipes |-> n] : b \in SampleBooks, n \in 0..MaxN }

(***************************************************************************)
(* extract_epub_recipes as a state machine                                 *)
(***************************************************************************)

VARIABLES
    book,         \* the book read: its file name and spine documents
    specialized,  \* the outcome of `if _is_crumbs_doilies(epub_path)`
    max_recipes,  \* the max_recipes argument
    pc,           \* "spine": at the loop over documents; "sections": in the
                  \* loop over a document's sections; "done": returned;
                  \* "raised": left by an exception;
                  \* "feed": a CrumbsParser is being fed events one by one
    doc_i,        \* spine documents taken so far
    href,         \* name of the document being processed
    bp,           \* the BlockParser of the document
    sections,     \* sections of the document still to classify
    section,      \* the loop variable `section` (<<>> before the first); it
                  \* keeps its value when the next document is taken
    recipe,       \* the loop variable `recipe` (<<>> for None), likewise
    recipes,      \* the result list
    cp,           \* the CrumbsParser of the document
    n_events,     \* events fed to cp in the event-driven specification
    tip_texts,    \* texts cp pushed in a method mode while in_tip was set
    events,       \* events fed to bp in the event-driven specification; the
                  \* event fed last to cp in the event-driven specification
    run,          \* 1 in the first run over the book, 2 in the repeated one
    first_recipes \* the list the first run returned

vars ==
    << book, specialized, max_recipes, pc, doc_i, href, bp, sections, section, recipe,
       recipes, cp, n_events, tip_texts, events, run, first_recipes >>

\* The call: its arguments and which run over them it is.
call_vars == << book, specialized, max_recipes, run, first_recipes >>

\* The bookkeeping of the event-driven specifications.
feed_vars == << n_events, tip_texts, events >>

crumbs_vars == << cp, feed_vars >>

generic_vars == << bp, sections, section, recipe >>

Init ==
    /\ \E c \in Calls : book = c.book /\ max_recipes = c.max_recipes
    /\ specialized = is_crumbs_doilies(book.epub_name)
    /\ pc = "spine"
    /\ doc_i = 0
    /\ href = None
    /\ bp = BlockParser_init
    /\ sections = <<>>
    /\ section = <<>>
    /\ recipe = <<>>
    /\ recipes = <<>>
    /\ cp = CrumbsParser_init(None)
    /\ n_events = 0
    /\ tip_texts = {}
    /\ events = <<>>
    /\ run = 1
    /\ first_recipes = <<>>

\* Mutation of NextDoc: the BlockParser of the previous document is fed the
\* next one instead of a new parser.
NextDoc_ParserReused ==
    /\ pc = "spine"
    /\ ~specialized
    /\ doc_i < Len(book.spine)
    /\ iter_spine_docs(book.spine[doc_i + 1]) = "yield"
    /\ LET doc    == book.spine[doc_i + 1]
           parsed == BlockParser_feed(bp, doc.html)
           found  == extract_section(parsed.blocks)
       IN  /\ doc_i' = doc_i + 1
           /\ href' = doc.name
           /\ bp' = parsed
           /\ sections' = found
           /\ pc' = IF found = <<>> THEN "spine" ELSE "sections"
    /\ UNCHANGED << call_vars, section, recipe, recipes, crumbs_vars >>

\* Generic pipeline: the next document of the spine is parsed and segmented.
NextDoc ==
    /\ pc = "spine"
    /\ ~specialized
    /\ doc_i < Len(book.spine)
    /\ iter_spine_docs(book.spine[doc_i + 1]) = "yield"
    /\ LET doc    == book.spine[doc_i + 1]
           parsed == BlockParser_feed(BlockParser_init, doc.html)
           found  == extract_section(parsed.blocks)
       IN  /\ doc_i' = doc_i + 1
           /\ href' = doc.name
           /\ bp' = parsed
           /\ sections' = found
           /\ pc' = IF found = <<>> THEN "spine" ELSE "sections"
    /\ UNCHANGED << call_vars, section, recipe, recipes, crumbs_vars >>

\* Mutation of Collect: the record is put in front of the list.
Collect_Prepends ==
    /\ pc = "sections"
    /\ LET s == Head(sections)
           r == collect_recipe_from_section(s, href)
       IN  /\ section' = << s >>
           /\ recipe' = r
           /\ sections' = Tail(sections)
           /\ recipes' = r \o recipes
           /\ pc' = IF r # <<>> /\ LimitReached(Len(recipes \o r), max_recipes)
                    THEN "done"
                    ELSE IF Tail(sections) = <<>> THEN "spine" ELSE "sections"
    /\ UNCHANGED << call_vars, doc_i, href, bp, crumbs_vars >>

\* Generic pipeline: one iteration of `for section in sections`.
Collect ==
    /\ pc = "sections"
    /\ LET s == Head(sections)
           r == collect_recipe_from_section(s, href)
       IN  /\ section' = << s >>
           /\ recipe' = r
           /\ sections' = Tail(sections)
           /\ recipes' = recipes \o r
           /\ pc' = IF r # <<>> /\ LimitReached(Len(recipes \o r), max_recipes)
                    THEN "done"
                    ELSE IF Tail(sections) = <<>> THEN "spine" ELSE "sections"
    /\ UNCHANGED << call_vars, doc_i, href, bp, crumbs_vars >>

\* Mutation of NextDocCrumbs: the parser of the previous document is fed
\* the next one instead of a new parser.
NextDocCrumbs_ParserReused ==
    /\ pc = "spine"
    /\ specialized
    /\ doc_i < Len(book.spine)
    /\ iter_spine_docs(book.spine[doc_i + 1]) = "yield"
    /\ LET doc == book.spine[doc_i + 1]
           fed == CrumbsParser_finish_recipe(
                      CrumbsParser_feed([cp EXCEPT !.href = doc.name], doc.html))
           out == AppendFiltered(recipes, fed.recipes, max_recipes)
       IN  /\ doc_i' = doc_i + 1
           /\ href' = doc.name
           /\ IF CrumbsEligible(doc.name)
              THEN /\ cp' = fed
                   /\ recipes' = out.recipes
                   /\ pc' = IF out.returned THEN "done" ELSE "spine"
              ELSE UNCHANGED << cp, recipes, pc >>
    /\ UNCHANGED << call_vars, generic_vars, feed_vars >>

\* Specialized pipeline: one iteration of the loop over the spine.
NextDocCrumbs ==
    /\ pc = "spine"
    /\ specialized
    /\ doc_i < Len(book.spine)
    /\ iter_spine_docs(book.spine[doc_i + 1]) = "yield"
    /\ LET doc == book.spine[doc_i + 1]
           fed == CrumbsParser_finish_recipe(
                      CrumbsParser_feed(CrumbsParser_init(doc.name), doc.html))
           out == AppendFiltered(recipes, fed.recipes, max_recipes)
       IN  /\ doc_i' = doc_i + 1
           /\ href' = doc.name
           /\ IF CrumbsEligible(doc.name)
              THEN /\ cp' = fed
                   /\ recipes' = out.recipes
                   /\ pc' = IF out.returned THEN "done" ELSE "spine"
              ELSE UNCHANGED << cp, recipes, pc >>
    /\ UNCHANGED << call_vars, generic_vars, feed_vars >>

\* Either pipeline: _iter_spine_docs passes over a spine entry it cannot
\* read.
SkipDoc ==
    /\ pc = "spine"
    /\ doc_i < Len(book.spine)
    /\ iter_spine_docs(book.spine[doc_i + 1]) = "continue"
    /\ doc_i' = doc_i + 1
    /\ UNCHANGED << call_vars, pc, href, generic_vars, recipes, crumbs_vars >>

\* Either pipeline: item.get_content() raises inside _iter_spine_docs; the
\* exception leaves the generator, the loop over the spine and the call,
\* and no list is returned.
ContentRaises ==
    /\ pc = "spine"
    /\ doc_i < Len(book.spine)
    /\ iter_spine_docs(book.spine[doc_i + 1]) = "raise"
    /\ doc_i' = doc_i + 1
    /\ pc' = "raised"
    /\ UNCHANGED << call_vars, href, generic_vars, recipes, crumbs_vars >>

\* Either pipeline: the spine is exhausted, `return recipes`.
Return ==
    /\ pc = "spine"
    /\ doc_i = Len(book.spine)
    /\ pc' = "done"
    /\ UNCHANGED << call_vars, doc_i, href, generic_vars, recipes, crumbs_vars >>

Next == NextDoc \/ Collect \/ NextDocCrumbs \/ SkipDoc \/ ContentRaises \/ Return

Spec == Init /\ [][Next]_vars

(***************************************************************************)
(* Two runs of extract_epub_recipes over the same book                     *)
(***************************************************************************)

\* extract_epub_recipes is called again with the same arguments: the call
\* starts with a new result list and a new iteration of the spine.  What
\* the first call left in its parsers and loop variables is still there.
Rerun ==
    /\ pc = "done"
    /\ run = 1
    /\ run' = 2
    /\ first_recipes' = recipes
    /\ recipes' = <<>>
    /\ doc_i' = 0
    /\ pc' = "spine"
    /\ UNCHANGED << book, specialized, max_recipes, href, generic_vars, crumbs_vars >>

NextRuns ==
    NextDoc \/ Collect \/ NextDocCrumbs \/ SkipDoc \/ ContentRaises \/ Return \/ Rerun

SpecRuns == Init /\ [][NextRuns]_vars

(***************************************************************************)
(* CrumbsParser as a state machine: one parser, fed any events             *)
(***************************************************************************)

\* The start tags fed: every marker of the template, an image and an inline
\* element that is no marker.
CrumbsStartTags ==
    { StartEv("h2", "rec_head", "r1", None),
      StartEv("h5", "ingredient_header", None, None),
      StartEv("li", "ingred", None, None),
      StartEv("h4", "rec_subhead", None, None),
      StartEv("h4", "tip_head", None, None),
      StartEv("p", "method", None, None),
      StartEv("img", None, None, "img/pie.jpg"),
      StartEv("b", None, None, None) }

CrumbsTexts == { "Apple Pie", "Use cold butter.", " " }

CrumbsEndTags == { "h2", "p", "b" }

InitCrumbs ==
    /\ book = Book(CrumbsName, << Doc("chapter_01.xhtml", <<>>) >>)
    /\ specialized = is_crumbs_doilies(book.epub_name)
    /\ max_recipes = 0
    /\ pc = "feed"
    /\ doc_i = 1
    /\ href = "chapter_01.xhtml"
    /\ bp = BlockParser_init
    /\ sections = <<>>
    /\ section = <<>>
    /\ recipe = <<>>
    /\ recipes = <<>>
    /\ cp = CrumbsParser_init("chapter_01.xhtml")
    /\ n_events = 0
    /\ tip_texts = {}
    /\ events = <<>>
    /\ run = 1
    /\ first_recipes = <<>>

run_vars == << call_vars, doc_i, href, generic_vars, recipes >>

\* HTMLParser calls handle_starttag.
FeedStart ==
    /\ pc = "feed"
    /\ n_events < MaxEvents
    /\ \E e \in CrumbsStartTags :
          /\ cp' = CrumbsParser_handle_starttag(cp, e)
          /\ events' = << e >>
    /\ n_events' = n_events + 1
    /\ UNCHANGED << run_vars, pc, tip_texts >>

\* HTMLParser calls handle_data.
FeedData ==
    /\ pc = "feed"
    /\ n_events < MaxEvents
    /\ \E t \in CrumbsTexts :
          /\ cp' = CrumbsParser_handle_data(cp, DataEv(t))
          /\ events' = << DataEv(t) >>
    /\ n_events' = n_events + 1
    /\ UNCHANGED << run_vars, pc, tip_texts >>

\* The text an end tag pushes now, "" if it pushes none.
PushedText == IF Truthy(cp.capture) THEN NormalizeBuf(cp.buf) ELSE ""

\* HTMLParser calls handle_endtag.
FeedEnd ==
    /\ pc = "feed"
    /\ n_events < MaxEvents
    /\ \E t \in CrumbsEndTags :
          /\ cp' = CrumbsParser_handle_endtag(cp, EndEv(t))
          /\ events' = << EndEv(t) >>
    /\ n_events' = n_events + 1
    /\ tip_texts' =
          IF /\ cp.capture \in { "method", "method_heading" }
             /\ cp.in_tip
             /\ PushedText # ""
          THEN tip_texts \cup { PushedText }
          ELSE tip_texts
    /\ UNCHANGED << run_vars, pc >>

\* The document ends: parser._finish_recipe().
FeedFinish ==
    /\ pc = "feed"
    /\ cp' = CrumbsParser_finish_recipe(cp)
    /\ pc' = "done"
    /\ UNCHANGED << run_vars, n_events, tip_texts, events >>

NextCrumbs == FeedStart \/ FeedData \/ FeedEnd \/ FeedFinish

SpecCrumbs == InitCrumbs /\ [][NextCrumbs]_vars

(***************************************************************************)
(* BlockParser as a state machine: one parser, fed any events              *)
(***************************************************************************)

\* The start tags fed: three capturable elements, one of them with an id and
\* one whose end tag never comes, and images with a source, a blank source
\* and no source.
BlockStartTags ==
    { StartEv("p", None, None, None),
      StartEv("h2", None, "r1", None),
      StartEv("li", None, None, None),
      StartEv("img", None, None, " a.jpg "),
      StartEv("img", None, None, " "),
      StartEv("img", None, None, None) }

BlockTexts == { " x ", " " }

BlockEndTags == { "p", "h2" }

InitBlocks ==
    /\ book = Book(GenericName, << Doc("ch1.xhtml", <<>>) >>)
    /\ specialized = is_crumbs_doilies(book.epub_name)
    /\ max_recipes = 0
    /\ pc = "scan"
    /\ doc_i = 1
    /\ href = "ch1.xhtml"
    /\ bp = BlockParser_init
    /\ sections = <<>>
    /\ section = <<>>
    /\ recipe = <<>>
    /\ recipes = <<>>
    /\ cp = CrumbsParser_init(None)
    /\ n_events = 0
    /\ tip_texts = {}
    /\ events = <<>>
    /\ run = 1
    /\ first_recipes = <<>>

scan_vars ==
    << call_vars, doc_i, href, section, recipe, recipes, cp, n_events, tip_texts >>

\* HTMLParser calls handle_starttag.
ScanStart ==
    /\ pc = "scan"
    /\ Len(events) < MaxBlockEvents
    /\ \E e \in BlockStartTags :
          /\ bp' = BlockParser_handle_starttag(bp, e)
          /\ events' = Append(events, e)
    /\ UNCHANGED << scan_vars, pc, sections >>

\* HTMLParser calls handle_data.
ScanData ==
    /\ pc = "scan"
    /\ Len(events) < MaxBlockEvents
    /\ \E t \in BlockTexts :
          /\ bp' = BlockParser_handle_data(bp, DataEv(t))
          /\ events' = Append(events, DataEv(t))
    /\ UNCHANGED << scan_vars, pc, sections >>

\* HTMLParser calls handle_endtag.
ScanEnd ==
    /\ pc = "scan"
    /\ Len(events) < MaxBlockEvents
    /\ \E t \in BlockEndTags :
          /\ bp' = BlockParser_handle_endtag(bp, EndEv(t))
          /\ events' = Append(events, EndEv(t))
    /\ UNCHANGED << scan_vars, pc, sections >>

\* The document ends: _parse_blocks returns parser.blocks and they are
\* segmented.
ScanFinish ==
    /\ pc = "scan"
    /\ sections' = extract_section(bp.blocks)
    /\ pc' = "scanned"
    /\ UNCHANGED << scan_vars, bp, events >>

NextBlocks == ScanStart \/ ScanData \/ ScanEnd \/ ScanFinish

SpecBlocks == InitBlocks /\ [][NextBlocks]_vars

(***************************************************************************)
(* The extraction of a whole book without a limit                          *)
(***************************************************************************)

RECURSIVE collect_sections(_, _)
\* The records of the sections of one document, in section order.
collect_sections(secs, name) ==
    IF secs = <<>> THEN <<>>
    ELSE collect_recipe_from_section(Head(secs), name)
            \o collect_sections(Tail(secs), name)

\* The records extract_epub_recipes takes from one document.
generic_doc_recipes(doc) ==
    collect_sections(extract_section(parse_blocks(doc.html)), doc.name)

\* The records extract_crumbs_doilies_recipes takes from one document.
crumbs_doc_recipes(doc) ==
    IF ~CrumbsEligible(doc.name) THEN <<>>
    ELSE AppendFiltered(
             <<>>,
             CrumbsParser_finish_recipe(
                 CrumbsParser_feed(CrumbsParser_init(doc.name), doc.html)).recipes,
             0).recipes

RECURSIVE spine_recipes(_, _)
\* The records of the documents _iter_spine_docs yields of a spine, in spine
\* order.
spine_recipes(spine, crumbs) ==
    IF spine = <<>> THEN <<>>
    ELSE (IF iter_spine_docs(Head(spine)) # "yield" THEN <<>>
          ELSE IF crumbs THEN crumbs_doc_recipes(Head(spine))
          ELSE generic_doc_recipes(Head(spine)))
            \o spine_recipes(Tail(spine), crumbs)

\* extract_epub_recipes(epub_path, max_recipes=None) raises instead of
\* returning a list.
unlimited_raises(b) ==
    \E d \in 1..Len(b.spine) : iter_spine_docs(b.spine[d]) = "raise"

\* The list extract_epub_recipes(epub_path, max_recipes=None) returns, for
\* a book on which it does not raise.
extract_unlimited(b) == spine_recipes(b.spine, is_crumbs_doilies(b.epub_name))

(***************************************************************************)
(* Properties                                                              *)
(***************************************************************************)

\* The lines of a text joined with "\n".
Lines(text) == IF text = None THEN <<>> ELSE SplitOn(text, { "\n" }, "")

IsLine(text, line) == \E i \in 1..Len(Lines(text)) : Lines(text)[i] = line

Returned(b) == pc = "done" /\ book = b

\* C1: the generic pipeline returns, for spec scenario 1 (document
\* "ch1.xhtml": h2 "Apple Pie", h3 "Ingredients", two list items, h3
\* "Method", two paragraphs), exactly one record with title "Apple Pie",
\* ingredients_text "2 apples\n1 cup sugar", method_text
\* "Peel apples.\nBake at 350." and source_key "ch1.xhtml".
C1_Scenario1 ==
    Returned(Book(GenericName, << Scenario1Doc >>)) =>
        /\ Len(recipes) = 1
        /\ recipes[1].title = "Apple Pie"
        /\ recipes[1].ingredients_text = "2 apples\n1 cup sugar"
        /\ recipes[1].method_text = "Peel apples.\nBake at 350."
        /\ recipes[1].source_key = "ch1.xhtml"

\* C2: in the specialized parser a title marker with non-empty, unfiltered
\* text T followed by a method paragraph with text M gives a record with
\* title T whose method_text contains M, also when the marker is the first
\* of the document (no recipe in flight yet).
C2_TitleMarkerStartsRecipe ==
    Returned(Book(CrumbsName, << CrumbsTitleDoc >>)) =>
        \E i \in 1..Len(recipes) :
            /\ recipes[i].title = "Apple Pie"
            /\ Contains(recipes[i].method_text, "Peel apples.")

\* The method bucket of the section classified last.
SectionBuckets == CollectLoop(CollectInit, section[1].blocks, href)

\* C3: every record returned by either pipeline has a method_text that is
\* non-empty after trimming, and a section or in-flight recipe whose method
\* content is empty gives no record, whatever its title, ingredients or
\* images are.
C3_MethodNonEmpty ==
    /\ \A i \in 1..Len(recipes) : Strip(recipes[i].method_text) # ""
    /\ \A i \in 1..Len(cp.recipes) : Strip(cp.recipes[i].method_text) # ""
    /\ section # <<>> /\ SectionBuckets.method = <<>> => recipe = <<>>

\* A section with a recipe title and ingredient lines but no method content
\* has been classified and gave no record.
C3_Witness ==
    /\ section # <<>>
    /\ section[1].title = "Apple Pie"
    /\ SectionBuckets.ingredients # <<>>
    /\ SectionBuckets.method = <<>>
    /\ recipe = <<>>

RECURSIVE MethodTextBlocks(_, _)
\* The texts of the non-heading text blocks (paragraphs and list items, not
\* images) that occur while the bucket set by the latest heading is
\* "method", in block order.
MethodTextBlocks(blocks, bucket) ==
    IF blocks = <<>> THEN <<>>
    ELSE LET b == Head(blocks)
         IN  IF is_heading(b)
             THEN MethodTextBlocks(
                      Tail(blocks),
                      IF INGREDIENTS_RE(b.text) THEN "ingredients"
                      ELSE IF METHOD_RE(b.text) THEN "method"
                      ELSE None)
             ELSE IF b.tag # "img" /\ bucket = "method"
                  THEN << b.text >> \o MethodTextBlocks(Tail(blocks), bucket)
             ELSE MethodTextBlocks(Tail(blocks), bucket)

\* C4: for every record of the generic classifier, method_text is the
\* trimmed newline-join, in block order, of the texts of exactly the
\* non-heading text blocks of the section that occur while the bucket is
\* "method", and none of the joined lines is empty.
C4_MethodTextIsMethodBlocks ==
    recipe # <<>> =>
        LET lines == MethodTextBlocks(section[1].blocks, None)
        IN  /\ recipe[1].method_text = Strip(Join(lines, "\n"))
            /\ \A i \in 1..Len(lines) : lines[i] # ""

\* The keywords of the title filter as the specification lists them.
FilteredKeywords ==
    { "acknowledgment", "acknowledgments", "equipment", "conversion", "glossary",
      "index", "about the author", "contents", "introduction", "chapter",
      "bibliography", "notes", "preface" }

HasFilteredKeyword(title) ==
    \E k \in FilteredKeywords : Contains(Lower(title), k)

\* C5: in both pipelines no returned record has a title that contains,
\* ignoring case, a keyword of the title filter, even when the section has
\* well-formed ingredients and method content.
C5_NoFilteredTitle ==
    /\ \A i \in 1..Len(recipes) : ~HasFilteredKeyword(recipes[i].title)
    /\ section # <<>> /\ HasFilteredKeyword(section[1].title) => recipe = <<>>

\* A section titled with a keyword and holding method content has been
\* classified and gave no record.
C5_Witness ==
    /\ section # <<>>
    /\ section[1].title = "Index"
    /\ SectionBuckets.method # <<>>
    /\ recipe = <<>>
    /\ pc = "done"
    /\ recipes = <<>>

\* The first n elements of s, all of them when s is shorter.
Take(s, n) == SubSeq(s, 1, IF n < Len(s) THEN n ELSE Len(s))

\* C6: with max_recipes = N >= 1 the returned list has at most N records
\* and is the first N records (all when fewer exist), in discovery order, of
\* the list the same extraction returns without a limit (for a book on
\* which the extraction without a limit returns a list).
C6_LimitIsPrefix ==
    pc = "done" /\ ~unlimited_raises(book) =>
        IF max_recipes = 0
        THEN recipes = extract_unlimited(book)
        ELSE /\ Len(recipes) <= max_recipes
             /\ recipes = Take(extract_unlimited(book), max_recipes)

\* A run has returned at a limit smaller than the number of records the
\* book holds.
C6_Witness ==
    /\ pc = "done"
    /\ ~unlimited_raises(book)
    /\ max_recipes >= 1
    /\ Len(extract_unlimited(book)) > max_recipes
    /\ Len(recipes) = max_recipes

\* An image source that may set image_href.
Qualifies(src) == src # "" /\ ~StartsWith(src, "data:") /\ ~Contains(src, "://")

\* The image blocks of a section with a qualifying source, in block order.
QualifyingImages(blocks) ==
    SelectSeq(blocks, LAMBDA b : b.tag = "img" /\ Qualifies(Strip(b.text)))

\* The reference a qualifying source resolves to.
ResolvedImage(src, name) ==
    IF StartsWith(src, "/") THEN LStripChar(src, "/") ELSE PurePosixParentJoin(name, src)

\* C7: a record's image_href comes from the first image of its section, in
\* document order, whose source is non-empty, does not start with "data:"
\* and contains no "://"; data-URI and absolute-URL images never set it and
\* no later image changes it.
C7_FirstQualifyingImage ==
    recipe # <<>> =>
        LET images == QualifyingImages(section[1].blocks)
        IN  recipe[1].image_href =
                IF images = <<>> THEN None
                ELSE ResolvedImage(Strip(images[1].text), href)

\* C8: in the generic classifier no image source string appears as a line
\* of ingredients_text or method_text: images after the one that set the
\* image reference change neither text.
C8_ImagesAddNoText ==
    recipe # <<>> =>
        \A i \in 1..Len(section[1].blocks) :
            LET b == section[1].blocks[i]
            IN  b.tag = "img" =>
                    /\ ~IsLine(recipe[1].method_text, b.text)
                    /\ ~IsLine(recipe[1].ingredients_text, b.text)

C10_Scenario5 ==
    Returned(Book(CrumbsName, << CrumbsTipDoc >>)) =>
        \E i \in 1..Len(recipes) :
            /\ Contains(recipes[i].method_text, "Peel apples.")
            /\ ~Contains(recipes[i].method_text, "Use cold butter.")


\* The positions of the title markers (h2 with class rec_head) of a document.
TitleMarkers(html) ==
    { i \in 1..Len(html) :
        html[i].ev = "start" /\ html[i].tag = "h2" /\ HasClass(html[i], "rec_head") }

\* The position of the last title marker of a document, 0 if it has none.
LastTitleMarker(html) ==
    IF TitleMarkers(html) = {} THEN 0
    ELSE CHOOSE i \in TitleMarkers(html) : \A j \in TitleMarkers(html) : j <= i

\* The text of the element that starts at position i, when the element is
\* a start tag, one text fragment and an end tag; "" otherwise.
ElementText(html, i) ==
    IF /\ i + 2 <= Len(html)
       /\ html[i + 1].ev = "data"
       /\ html[i + 2].ev = "end"
    THEN Strip(html[i + 1].data)
    ELSE ""

\* Position j of the document starts a method paragraph with text, and the
\* latest method subheading between the title marker at i and j, if any, is
\* not a tip heading.
MethodLineAt(html, i, j) ==
    /\ html[j].ev = "start" /\ html[j].tag = "p"
    /\ \E c \in METHOD_P_CLASSES : HasClass(html[j], c)
    /\ ElementText(html, j) # ""
    /\ \A k \in (i + 1)..(j - 1) :
          (html[k].ev = "start" /\ html[k].tag = "h4" /\ HasClass(html[k], "tip_head")) =>
              \E m \in (k + 1)..(j - 1) :
                  /\ html[m].ev = "start" /\ html[m].tag = "h4"
                  /\ HasClass(html[m], "rec_subhead")

\* The document ends while a recipe with a title that passes the filter
\* and with method lines is in flight.
EndsInFlight(html) ==
    LET i == LastTitleMarker(html)
    IN  /\ i > 0
        /\ ElementText(html, i) # ""
        /\ ~title_ignored(ElementText(html, i))
        /\ \E j \in (i + 3)..Len(html) : MethodLineAt(html, i, j)

\* C11: in the specialized pipeline, when an eligible document ends while a
\* recipe with non-empty title and non-empty method list is in flight, that
\* recipe is among the records returned (the last recipe of every eligible
\* document is emitted), and no in-flight recipe remains in the parser once
\* the document has been processed.
C11_EndOfDocumentFlush ==
    /\ pc # "feed" => cp.current = <<>>
    /\ pc = "done" /\ specialized /\ max_recipes = 0 =>
          \A d \in 1..Len(book.spine) :
              LET doc == book.spine[d]
              IN  CrumbsEligible(doc.name) /\ EndsInFlight(doc.html) =>
                      \E r \in 1..Len(recipes) :
                          /\ recipes[r].title = ElementText(doc.html, LastTitleMarker(doc.html))
                          /\ StartsWith(recipes[r].source_key, doc.name)

\* The source_key the claim gives a record of document name whose
\* originating heading carries the identifier id (None when it has none).
ExpectedSourceKey(name, id) ==
    IF id = None \/ id = "" THEN name ELSE name \o "#" \o id

\* C12: in both pipelines the source_key of every record is
\* "<document-name>#<id>" when the originating heading or title marker
\* carries a non-empty identifier and exactly "<document-name>" otherwise;
\* two recipe headings of "ch1.xhtml" with the identifiers r1 and r2, each
\* with method content, give two records with the source keys
\* "ch1.xhtml#r1" and "ch1.xhtml#r2".
C12_SourceKey ==
    /\ [][pc = "sections" /\ recipe' # <<>> =>
              recipe'[1].source_key = ExpectedSourceKey(href, section'[1].title_id)]_vars
    /\ [](\A i \in 1..Len(cp.recipes) :
              \/ cp.recipes[i].source_key = cp.href
              \/ /\ StartsWith(cp.recipes[i].source_key, cp.href \o "#")
                 /\ Len(cp.recipes[i].source_key) > Len(cp.href) + 1)
    /\ [](Returned(Book(GenericName, << Scenario4Doc >>)) =>
              /\ Len(recipes) = 2
              /\ recipes[1].source_key = "ch1.xhtml#r1"
              /\ recipes[2].source_key = "ch1.xhtml#r2")

\* Records have been made from a heading with an identifier, from one with
\* an empty identifier and from one without, and scenario 4 has returned.
C12_Witness ==
    /\ pc = "done"
    /\ recipe # <<>>
    /\ \/ /\ book = Book(GenericName, << Scenario4Doc >>)
          /\ section[1].title_id = "r2"
          /\ Len(recipes) = 2
       \/ /\ book = Book(GenericName, << EmptyIdDoc >>)
          /\ recipe[1].source_key = "ch1.xhtml"

\* The reference the resolver rule gives a qualifying source of the document
\* at location name: a source that starts with "/" loses its leading
\* slashes; any other is joined to the parent directory of the location and
\* normalized ("." and ".." collapsed), without a leading slash.
NormalizedImageHref(src, name) ==
    IF StartsWith(src, "/") THEN LStripChar(src, "/")
    ELSE LStripChar(
             posixpath_normpath(posixpath_join(posixpath_dirname(name), src)), "/")

\* C13: in both pipelines the image_href of a record is the resolution of
\* a qualifying image source of its section by the resolver rule: the
\* source without its leading slash if it starts with "/", otherwise the
\* parent directory of the document location joined with the source and
\* normalized (location "recipes/ch1.xhtml": source "img/pie.jpg" gives
\* "recipes/img/pie.jpg", source "../img/pie.jpg" gives "img/pie.jpg").
C13_ImageHrefResolution ==
    /\ [][pc = "sections" /\ recipe' # <<>> /\ recipe'[1].image_href # None =>
              \E i \in 1..Len(section'[1].blocks) :
                  LET b == section'[1].blocks[i]
                  IN  /\ b.tag = "img"
                      /\ Qualifies(Strip(b.text))
                      /\ recipe'[1].image_href = NormalizedImageHref(Strip(b.text), href)]_vars
    /\ [](\A i \in 1..Len(cp.recipes) :
              cp.recipes[i].image_href \in { None, "img/pie.jpg" })

RECURSIVE EachDocumentAlone(_, _)
\* The records of the one-document books of the documents of a spine, read
\* without a limit, in spine order.
EachDocumentAlone(epub_name, spine) ==
    IF spine = <<>> THEN <<>>
    ELSE extract_unlimited(Book(epub_name, << Head(spine) >>))
            \o EachDocumentAlone(epub_name, Tail(spine))

\* C14: two extraction runs over the same book (same file name, same
\* documents in the same order, same max_recipes) return identical record
\* lists, and no parser state of one run or one document influences
\* another: every document contributes the records it gives when it is
\* the only document of the book.
C14_Determinism ==
    /\ run = 2 /\ pc = "done" => recipes = first_recipes
    /\ pc = "done" /\ max_recipes = 0 =>
          recipes = EachDocumentAlone(book.epub_name, book.spine)

\* The second run over a book of two documents, the first of which ends
\* inside an unclosed element, has returned the records of both.
C14_Witness ==
    /\ run = 2
    /\ pc = "done"
    /\ Len(book.spine) = 2
    /\ book.spine[1] = UnclosedTailDoc
    /\ Len(recipes) >= 2
    /\ bp.blocks # <<>>

\* The book without the spine entries the archive reader cannot supply.
WithoutUnavailable(b) ==
    Book(b.epub_name, SelectSeq(b.spine, LAMBDA d : d.avail = "ok"))

\* The list a run with the limit max returns for a book all of whose
\* documents can be read.
ExpectedResult(b, max) ==
    IF max = 0 THEN extract_unlimited(b) ELSE Take(extract_unlimited(b), max)

\* C16: a spine entry the archive reader cannot supply (the lookup raises
\* or returns no item, the content is empty, or reading the content
\* raises) is skipped without aborting the extraction: the run returns, and
\* the list it returns is the list of the same book without that entry.
C16_UnavailableSkipped ==
    pc \in { "done", "raised" } =>
        /\ pc = "done"
        /\ recipes = ExpectedResult(WithoutUnavailable(book), max_recipes)

\* The file name has both substrings of the template, ignoring case.
HasTemplateName(epub_name) ==
    /\ Contains(Lower(epub_name), "crumbs")
    /\ Contains(Lower(epub_name), "doilies")

RECURSIVE GenericOverAll(_)
\* The records the generic pipeline takes from every readable document of a
\* spine, in spine order.
GenericOverAll(spine) ==
    IF spine = <<>> THEN <<>>
    ELSE (IF Head(spine).avail = "ok" THEN generic_doc_recipes(Head(spine)) ELSE <<>>)
            \o GenericOverAll(Tail(spine))

\* C15: a book whose file name contains both "crumbs" and "doilies",
\* ignoring case, is processed by the specialized parser only: the generic
\* pipeline parses, segments and classifies nothing of it, even when the
\* specialized parser gives no record, and only documents whose name
\* contains both "chapter" and "_01" are fed to the parser and contribute
\* records.  Every other book is processed by the generic pipeline only,
\* over all its documents.
C15_PipelineSelection ==
    /\ HasTemplateName(book.epub_name) =>
          /\ bp = BlockParser_init /\ sections = <<>> /\ section = <<>> /\ recipe = <<>>
          /\ cp.href # None => Contains(cp.href, "chapter") /\ Contains(cp.href, "_01")
          /\ \A i \in 1..Len(recipes) :
                /\ recipes[i].source_type = "epub:crumbs_doilies"
                /\ \E d \in 1..Len(book.spine) :
                      /\ Contains(book.spine[d].name, "chapter")
                      /\ Contains(book.spine[d].name, "_01")
                      /\ StartsWith(recipes[i].source_key, book.spine[d].name)
    /\ ~HasTemplateName(book.epub_name) =>
          /\ cp = CrumbsParser_init(None)
          /\ \A i \in 1..Len(recipes) : recipes[i].source_type = "epub"
          /\ pc = "done" /\ max_recipes = 0 => recipes = GenericOverAll(book.spine)

\* A book with the template's name in upper case, holding a document that
\* is not eligible and one the generic pipeline would take a record from,
\* has been read by the specialized parser alone and gave no record.
C15_Witness ==
    /\ pc = "done"
    /\ book = Book("DOILIES & CRUMBS.EPUB", << CrumbsOtherDoc, MixedDoc >>)
    /\ generic_doc_recipes(MixedDoc) # <<>>
    /\ cp.href = "chapter_01.xhtml"
    /\ recipes = <<>>

\* The event is the start tag of a paragraph, list item or heading of level
\* 1 to 4.
IsCapturableStart(e) ==
    e.ev = "start" /\ e.tag \in { "p", "li", "h1", "h2", "h3", "h4" }

\* The element that starts at position i of the events has no end tag after
\* it.
EndTagMissing(evs, i) ==
    /\ IsCapturableStart(evs[i])
    /\ \A k \in (i + 1)..Len(evs) : ~(evs[k].ev = "end" /\ evs[k].tag = evs[i].tag)

\* A well-formed capturable element with text starts at position j: a start
\* tag, one text fragment, its end tag.
WellFormedAt(evs, j) ==
    /\ j + 2 <= Len(evs)
    /\ IsCapturableStart(evs[j])
    /\ evs[j + 1].ev = "data" /\ Strip(evs[j + 1].data) # ""
    /\ evs[j + 2].ev = "end" /\ evs[j + 2].tag = evs[j].tag

\* The block of the well-formed element at position j.
BlockOf(evs, j) ==
    TextBlock(evs[j].tag, NormalizeBuf(<< evs[j + 1].data >>), TagLevel(evs[j].tag),
              evs[j].id)

HasBlock(blocks, block) == \E n \in 1..Len(blocks) : blocks[n] = block

\* C17: malformed or truncated markup does not halt the block scan: once
\* the document has ended, a capturable element whose end tag is missing
\* has given no block of its own, and every well-formed capturable element
\* that starts after it has given its own block with its own text.
C17_MissingEndTagTolerated ==
    pc = "scanned" =>
        \A i \in 1..Len(events) :
            EndTagMissing(events, i) =>
                /\ (\A k \in 1..(i - 1) : ~(events[k].ev = "end" /\ events[k].tag = events[i].tag))
                      => \A n \in 1..Len(bp.blocks) : bp.blocks[n].tag # events[i].tag
                /\ \A j \in (i + 1)..Len(events) :
                      WellFormedAt(events, j) => HasBlock(bp.blocks, BlockOf(events, j))

\* The event fed by the step, when the step feeds one.
FedEvent == events'[Len(events')]

\* C18: at any point at most one capturable element (p, li, h1-h4) is
\* active; the start tag of a capturable element seen while another is
\* active changes neither the active tag, the captured identifier nor the
\* text buffer and produces no block, and the text that follows it is added
\* to the buffer of the active element.
C18_SingleActiveElement ==
    /\ [](bp.active_tag \in { None, "p", "li", "h1", "h2", "h3", "h4" })
    /\ [][events' # events /\ bp.active_tag # None =>
              /\ IsCapturableStart(FedEvent) => bp' = bp
              /\ FedEvent.ev = "data" =>
                    bp' = [bp EXCEPT !.buf = Append(bp.buf, FedEvent.data)]]_vars

\* A heading with an id has started inside an open paragraph and text has
\* followed it: the paragraph is still the active element, without the id,
\* and holds the text from before and after the heading's start tag.
C18_Witness ==
    /\ Len(events) = 4
    /\ events[1] = StartEv("p", None, None, None)
    /\ events[2] = DataEv(" x ")
    /\ events[3] = StartEv("h2", None, "r1", None)
    /\ events[4] = DataEv(" x ")
    /\ bp = [blocks |-> <<>>, active_tag |-> "p", active_id |-> None,
             buf |-> << " x ", " x " >>]

RECURSIVE OwnEndFrom(_, _, _, _)
\* The position of the end tag that closes an element of tag name tag, read
\* from position k on with depth elements of that name open inside it; 0 if
\* the events hold no such end tag.
OwnEndFrom(evs, tag, k, depth) ==
    IF k > Len(evs) THEN 0
    ELSE IF evs[k].ev = "start" /\ evs[k].tag = tag
         THEN OwnEndFrom(evs, tag, k + 1, depth + 1)
    ELSE IF evs[k].ev = "end" /\ evs[k].tag = tag
         THEN IF depth = 0 THEN k ELSE OwnEndFrom(evs, tag, k + 1, depth - 1)
    ELSE OwnEndFrom(evs, tag, k + 1, depth)

\* The position of the end tag that corresponds to the start tag at i.
OwnEnd(evs, i) == OwnEndFrom(evs, evs[i].tag, i + 1, 0)

\* The text fragments between positions i and k, in order.
Fragments(evs, i, k) ==
    LET mid == SelectSeq(SubSeq(evs, i + 1, k - 1), LAMBDA e : e.ev = "data")
    IN  [n \in 1..Len(mid) |-> mid[n].data]

\* The blocks that are no images.
TextBlocks(blocks) == SelectSeq(blocks, LAMBDA b : b.tag # "img")

\* The first capturable element of the document starts at position i.
FirstElementAt(evs, i) ==
    /\ IsCapturableStart(evs[i])
    /\ \A k \in 1..(i - 1) : ~IsCapturableStart(evs[k])

\* C19: when the end tag that corresponds to the start tag of the active
\* element is reached, the element's block holds the whitespace-normalized
\* text of all fragments between the two tags, also when an ignored
\* element of the same tag name is nested inside it; an element that closes
\* with empty or whitespace-only text gives no block.  Stated for the first
\* capturable element of the document, at the moment its own end tag is
\* fed.
C19_BlockEmission ==
    \A i \in 1..Len(events) :
        FirstElementAt(events, i) /\ OwnEnd(events, i) = Len(events) =>
            LET text == NormalizeBuf(Fragments(events, i, Len(events)))
            IN  TextBlocks(bp.blocks) =
                    IF text = "" THEN <<>>
                    ELSE << TextBlock(events[i].tag, text, TagLevel(events[i].tag),
                                      events[i].id) >>

\* The image block of a source.
ImageBlock(src) == TextBlock("img", src, 0, None)

\* The trimmed source of an img start tag, "" when it has no src.
TrimmedSrc(e) == IF e.src = None THEN "" ELSE Strip(e.src)

\* C20: every img start tag with a non-empty trimmed src appends an image
\* block at once, whether or not a capturable element is active, and
\* changes neither the active tag, the identifier nor the buffer; an img
\* with a missing or blank src emits nothing; blocks are only ever
\* appended, so an image inside an active element precedes that element's
\* block in the block sequence.
C20_ImagesEmitAtOnce ==
    /\ [][events' # events /\ FedEvent.ev = "start" /\ FedEvent.tag = "img" =>
              bp' = [bp EXCEPT !.blocks =
                        IF TrimmedSrc(FedEvent) # ""
                        THEN Append(bp.blocks, ImageBlock(TrimmedSrc(FedEvent)))
                        ELSE bp.blocks]]_vars
    /\ [][/\ Len(bp'.blocks) >= Len(bp.blocks)
          /\ SubSeq(bp'.blocks, 1, Len(bp.blocks)) = bp.blocks]_vars

\* An image with a source and one with a blank or missing source have been
\* fed inside an open paragraph with text, and the paragraph has been
\* closed: the one image block comes before the paragraph's block.
C20_Witness ==
    /\ Len(events) = 5
    /\ events[1] = StartEv("p", None, None, None)
    /\ events[2] = DataEv(" x ")
    /\ events[3] = StartEv("img", None, None, " a.jpg ")
    /\ events[4] \in { StartEv("img", None, None, " "), StartEv("img", None, None, None) }
    /\ events[5] = EndEv("p")
    /\ bp.blocks = << ImageBlock("a.jpg"), TextBlock("p", "x", 0, None) >>
    /\ bp.active_tag = None


(***************************************************************************)
(* C21: segmentation into sections                                         *)
(***************************************************************************)

\* The positions in blocks of the headings of level 1 to 3.
SectionHeads(blocks) ==
    { i \in 1..Len(blocks) : blocks[i].level \in 1..3 }

\* The position of the k-th heading of level 1 to 3.
NthSectionHead(blocks, k) ==
    CHOOSE i \in SectionHeads(blocks) :
        Cardinality({ j \in SectionHeads(blocks) : j < i }) = k - 1

\* The position of the first heading of level 1 to 3 after position i, or
\* the position after the last block.
SectionEnd(blocks, i) ==
    CHOOSE e \in (i + 1)..(Len(blocks) + 1) :
        /\ e = Len(blocks) + 1 \/ e \in SectionHeads(blocks)
        /\ \A j \in (i + 1)..(e - 1) : j \notin SectionHeads(blocks)

\* C21: the sections of a document are in one-to-one, order-preserving
\* correspondence with its heading blocks of level 3 or less: the k-th
\* section has the text and the identifier of the k-th such heading and its
\* blocks are exactly the blocks strictly between that heading and the next
\* one (or the end), in order, so no block before the first such heading is
\* in a section; the sections still to be classified are the last of them.
C21_Segmentation ==
    LET blocks == bp.blocks
        found  == extract_section(blocks)
    IN  /\ Len(found) = Cardinality(SectionHeads(blocks))
        /\ \A k \in 1..Len(found) :
              LET h == NthSectionHead(blocks, k)
              IN  /\ found[k].title = blocks[h].text
                  /\ found[k].title_id = blocks[h].element_id
                  /\ found[k].blocks =
                        SubSeq(blocks, h + 1, SectionEnd(blocks, h) - 1)
        /\ pc = "sections" =>
              /\ Len(sections) <= Len(found)
              /\ sections =
                    SubSeq(found, Len(found) - Len(sections) + 1, Len(found))

\* A document was just segmented into two sections: its first block is
\* before the first heading of level 3 or less, and the first section holds
\* a heading of level 4.
C21_Witness ==
    /\ pc = "sections"
    /\ sections = extract_section(bp.blocks)
    /\ Len(sections) = 2
    /\ bp.blocks[1].level \notin 1..3
    /\ \E i \in 1..Len(sections[1].blocks) : sections[1].blocks[i].level = 4

(***************************************************************************)
(* C22: bucket by heading keyword                                          *)
(***************************************************************************)

\* The bucket a heading text selects when the keywords are looked for as
\* case-insensitive substrings.
SubstringBucket(text) ==
    LET low == Lower(text)
    IN  IF Contains(low, "ingredient") THEN "ingredients"
        ELSE IF \E w \in METHOD_WORDS : Contains(low, w) THEN "method"
        ELSE "none"

RECURSIVE BucketLines(_, _, _)
\* The texts of the text blocks of blocks seen while the bucket is want,
\* the bucket being bucket at the start.
BucketLines(blocks, bucket, want) ==
    IF blocks = <<>> THEN <<>>
    ELSE LET block == Head(blocks)
         IN  IF block.level # 0
             THEN BucketLines(Tail(blocks), SubstringBucket(block.text), want)
             ELSE (IF bucket = want THEN << block.text >> ELSE <<>>)
                  \o BucketLines(Tail(blocks), bucket, want)

\* C22: a heading inside a section sets the bucket to 'ingredients' when its
\* text contains "ingredient" as a case-insensitive substring, otherwise to
\* 'method' when it contains "method", "direction", "instruction" or
\* "preparation" as a case-insensitive substring (plural and embedded forms
\* included), otherwise to 'none', and the text blocks seen under 'none' go
\* to neither list: for a classified section without images and with an
\* accepted title, the record's two texts are the lines of the two buckets.
C22_BucketBySubstring ==
    /\ section # <<>>
    /\ \A i \in 1..Len(section[1].blocks) : section[1].blocks[i].tag # "img"
    /\ ~title_ignored(section[1].title)
    => LET ingredients == BucketLines(section[1].blocks, "none", "ingredients")
           method      == BucketLines(section[1].blocks, "none", "method")
       IN  IF method = <<>> THEN recipe = <<>>
           ELSE /\ recipe # <<>>
                /\ recipe[1].method_text = Strip(Join(method, "\n"))
                /\ recipe[1].ingredients_text =
                      OrNone(Strip(Join(ingredients, "\n")))

(***************************************************************************)
(* C23: order of the returned list                                         *)
(***************************************************************************)

\* The places of a document a record can come from, in reading order, each
\* with the source_key and the title of its record (None: any title): the
\* headings of level 3 or less, or the title markers.
DocOrigins(doc, crumbs) ==
    IF crumbs
    THEN LET markers == SelectSeq(doc.html,
                            LAMBDA e : /\ e.ev = "start"
                                       /\ e.tag = "h2"
                                       /\ HasClass(e, "rec_head"))
         IN  [i \in 1..Len(markers) |->
                 [source_key |-> ExpectedSourceKey(doc.name, markers[i].id),
                  title      |-> None]]
    ELSE LET heads == SelectSeq(parse_blocks(doc.html),
                          LAMBDA b : b.level \in 1..3)
         IN  [i \in 1..Len(heads) |->
                 [source_key |-> ExpectedSourceKey(doc.name, heads[i].element_id),
                  title      |-> heads[i].text]]

RECURSIVE Origins(_, _)
\* The places of the readable documents of a spine, in reading order.
Origins(spine, crumbs) ==
    IF spine = <<>> THEN <<>>
    ELSE (IF Head(spine).avail = "ok" THEN DocOrigins(Head(spine), crumbs)
          ELSE <<>>)
            \o Origins(Tail(spine), crumbs)

RECURSIVE InOrder(_, _)
\* Each record of recs comes from a place of origins, and the places of
\* successive records follow one another.
InOrder(recs, origins) ==
    IF recs = <<>> THEN TRUE
    ELSE IF origins = <<>> THEN FALSE
    ELSE IF /\ Head(recs).source_key = Head(origins).source_key
            /\ Head(origins).title \in { None, Head(recs).title }
         THEN InOrder(Tail(recs), Tail(origins))
         ELSE InOrder(recs, Tail(origins))

\* C23: the list is at every moment in reading order, the records of a
\* document in the order of their sections or title markers and no record
\* of a later document before one of an earlier document; the list an
\* unlimited run returns is the concatenation, in spine order, of the
\* records of each document.
C23_ReadingOrder ==
    /\ InOrder(recipes, Origins(book.spine, specialized))
    /\ pc = "done" /\ max_recipes = 0 =>
          recipes = EachDocumentAlone(book.epub_name, book.spine)

\* The run over a book of a two-recipe document followed by a one-recipe
\* document has returned the three records.
C23_Witness ==
    /\ pc = "done"
    /\ book.spine = << TwoRecipeDoc, OneRecipeDoc >>
    /\ Len(recipes) = 3
    /\ recipes[1].title = "Scones"
    /\ recipes[2].title = "Jam"
    /\ recipes[3].title = "Apple Pie"

(***************************************************************************)
(* C24: a title marker finalizes the recipe in flight                      *)
(***************************************************************************)

\* C24: every title marker finalizes the recipe in flight, also when the
\* marker's own title text is blank, and nothing that follows the marker's
\* start tag is added to that recipe: for a recipe "Apple Pie" with the
\* method line "Peel apples.", followed by a title marker with blank text
\* and the method line "Bake at 350.", the record of Apple Pie is returned
\* with the method text "Peel apples." and no record holds the later line.
C24_TitleMarkerFinalizes ==
    Returned(Book(CrumbsName, << CrumbsBlankTitleDoc >>)) =>
        /\ \E i \in 1..Len(recipes) :
              /\ recipes[i].title = "Apple Pie"
              /\ recipes[i].method_text = "Peel apples."
        /\ \A i \in 1..Len(recipes) :
              ~Contains(recipes[i].method_text, "Bake at 350.")

(***************************************************************************)
(* C25: ingredient subsection labels                                       *)
(***************************************************************************)

\* C25: an ingredient item that closes with non-empty text while a recipe
\* is in flight is appended after the pending subsection label, the label
\* being appended first unless it already is the most recent ingredient
\* line; an ingredient header sets the pending label and appends nothing;
\* the label is reset when a new recipe begins. For a recipe "Apple Pie"
\* with the header "For the crust" and the items "2 apples" and "1 cup
\* sugar" the ingredient lines of the record are label, item, label, item;
\* for a recipe "Jam" with the item "Fruit" and no header, after a recipe
\* that ended with the header "For the crust", they are the one item.
C25_SubsectionLabels ==
    /\ Returned(Book(CrumbsName, << CrumbsSubsectionDoc >>)) =>
          \E i \in 1..Len(recipes) :
              /\ recipes[i].title = "Apple Pie"
              /\ Lines(recipes[i].ingredients_text) =
                    << "For the crust", "2 apples", "For the crust", "1 cup sugar" >>
    /\ Returned(Book(CrumbsName, << CrumbsLabelResetDoc >>)) =>
          \E i \in 1..Len(recipes) :
              /\ recipes[i].title = "Jam"
              /\ Lines(recipes[i].ingredients_text) = << "Fruit" >>

(***************************************************************************)
(* C26: parser state is scoped to one document                             *)
(***************************************************************************)

\* The eligible documents of the specialized run parsed so far.
ParsedDocs ==
    { d \in 1..doc_i : /\ iter_spine_docs(book.spine[d]) = "yield"
                       /\ CrumbsEligible(book.spine[d].name) }

\* The parser after a document parsed with nothing before it.
ParsedAlone(doc) ==
    CrumbsParser_finish_recipe(
        CrumbsParser_feed(CrumbsParser_init(doc.name), doc.html))

\* C26: in the specialized pipeline each eligible document is parsed with a
\* fresh parser state: whatever the documents before it left behind (an
\* open capture, the tip flag, a pending label or identifier, a recipe in
\* flight), the parser after a document is the parser that document gives
\* on its own, and every record comes from one eligible document, the one
\* its source_key names.
C26_FreshParserPerDocument ==
    specialized =>
        /\ ParsedDocs = {} => cp = CrumbsParser_init(None)
        /\ ParsedDocs # {} =>
              LET last == CHOOSE d \in ParsedDocs : \A e \in ParsedDocs : e <= d
              IN  cp = ParsedAlone(book.spine[last])
        /\ \A r \in 1..Len(recipes) :
              \E d \in ParsedDocs :
                  /\ StartsWith(recipes[r].source_key, book.spine[d].name)
                  /\ \E q \in 1..Len(ParsedAlone(book.spine[d]).recipes) :
                        ParsedAlone(book.spine[d]).recipes[q] = recipes[r]

\* The second of two eligible documents has been parsed, the first of which
\* ended inside an open tip heading with a pending identifier; none of this
\* is left in the parser.
C26_Witness ==
    /\ specialized
    /\ pc = "done"
    /\ book.spine = << CrumbsOpenTipDoc, CrumbsTitleDoc >>
    /\ ParsedAlone(CrumbsOpenTipDoc).in_tip
    /\ ParsedAlone(CrumbsOpenTipDoc).capture = "method_heading"
    /\ ParsedAlone(CrumbsOpenTipDoc).pending_recipe_id = "r1"
    /\ ~cp.in_tip
    /\ cp.capture = None
    /\ cp.pending_recipe_id = None

(***************************************************************************)
(* C27: lifetime of the tip flag                                           *)
(***************************************************************************)

\* The step feeds one event to the CrumbsParser.
FeedsEvent == pc = "feed" /\ n_events' = n_events + 1

\* The step feeds the start tag of an h4 with the class c.
FeedsSubheading(c) ==
    /\ FeedsEvent
    /\ FedEvent.ev = "start"
    /\ FedEvent.tag = "h4"
    /\ HasClass(FedEvent, c)

\* The step feeds the start tag of a tip heading.
FeedsTipHeading == FeedsSubheading("tip_head")

\* The step feeds the start tag of a method subheading that is no tip
\* heading.
FeedsMethodSubheading ==
    FeedsSubheading("rec_subhead") /\ ~HasClass(FedEvent, "tip_head")

\* The step closes a title element whose text is not blank: a new recipe
\* begins.
BeginsRecipe ==
    /\ FeedsEvent
    /\ FedEvent = EndEv("h2")
    /\ cp.capture = "recipe_title"
    /\ NormalizeBuf(cp.buf) # ""

\* C27: the tip flag is set by a tip-heading marker, cleared by a method
\* subheading marker that is no tip heading and cleared whenever a new
\* recipe begins; every other event leaves it as it is.
C27_TipFlagLifetime ==
    [][/\ FeedsTipHeading => cp'.in_tip
       /\ FeedsMethodSubheading => ~cp'.in_tip
       /\ BeginsRecipe => ~cp'.in_tip
       /\ FeedsEvent /\ ~FeedsTipHeading /\ ~FeedsMethodSubheading /\ ~BeginsRecipe
             => cp'.in_tip = cp.in_tip]_vars

(***************************************************************************)
(* C28: extent of a capture                                                *)
(***************************************************************************)

\* The marker elements of the template: tag and class.
IsMarkerStart(e) ==
    /\ e.ev = "start"
    /\ \/ e.tag = "h2" /\ HasClass(e, "rec_head")
       \/ e.tag = "h5" /\ HasClass(e, "ingredient_header")
       \/ e.tag = "li" /\ HasClass(e, "ingred")
       \/ e.tag = "h4" /\ (HasClass(e, "rec_subhead") \/ HasClass(e, "tip_head"))
       \/ e.tag = "p" /\ \E c \in METHOD_P_CLASSES : HasClass(e, c)

\* The tags of the marker elements.
MarkerTags == { "h2", "h5", "li", "h4", "p" }

\* The tag of the marker element a capture mode belongs to.
CaptureTag(capture) ==
    CASE capture = "recipe_title"      -> "h2"
      [] capture = "ingredient_header" -> "h5"
      [] capture = "ingredient_item"   -> "li"
      [] capture = "method_heading"    -> "h4"
      [] capture = "method"            -> "p"
      [] OTHER                         -> None

\* C28: while a marker element is captured, every text fragment up to the
\* marker's own end tag is kept, in order, and the text pushed at that end
\* tag is their normalized concatenation; the start tag and the end tag of
\* an inline element nested inside the marker neither end the capture nor
\* drop text.
C28_CaptureExtent ==
    [][FeedsEvent /\ cp.capture # None =>
          /\ FedEvent.ev = "data" =>
                cp'.capture = cp.capture /\ cp'.buf = Append(cp.buf, FedEvent.data)
          /\ FedEvent.ev = "start" /\ ~IsMarkerStart(FedEvent) =>
                cp'.capture = cp.capture /\ cp'.buf = cp.buf
          /\ FedEvent.ev = "end" /\ FedEvent.tag \notin MarkerTags =>
                cp'.capture = cp.capture /\ cp'.buf = cp.buf
          /\ FedEvent.ev = "end" /\ FedEvent.tag = CaptureTag(cp.capture) =>
                cp'.capture = None /\ cp'.buf = <<>>]_vars

(***************************************************************************)
(* C29: headings inside a section                                          *)
(***************************************************************************)

\* The blocks carry a heading of level 4.
HasLevel4Heading(blocks) ==
    \E i \in 1..Len(blocks) : blocks[i].level = 4

\* C29: every heading block among the blocks of a section has level 4 (a
\* heading of level 3 or less starts a section and is never inside one), so
\* only level-4 headings set the bucket, and a section without a level-4
\* heading yields no record.
C29_OnlyLevel4Inside ==
    /\ LET found == extract_section(bp.blocks)
       IN  \A k \in 1..Len(found) :
               \A i \in 1..Len(found[k].blocks) :
                   LET block == found[k].blocks[i]
                   IN  block.tag \in { "h1", "h2", "h3", "h4" } \/ block.level # 0
                           => block.tag = "h4" /\ block.level = 4
    /\ section # <<>> /\ ~HasLevel4Heading(section[1].blocks) => recipe = <<>>

\* The section of scenario 1, whose subheadings "Ingredients" and "Method"
\* are at level 3, was classified: it had text blocks and no level-4
\* heading, and the run returned nothing.
C29_Witness ==
    /\ Returned(Book(GenericName, << Scenario1Doc >>))
    /\ section # <<>>
    /\ section[1].title = "Method"
    /\ section[1].blocks # <<>>
    /\ ~HasLevel4Heading(section[1].blocks)
    /\ recipes = <<>>

(***************************************************************************)
(* C30: location fields mirror the source key                              *)
(***************************************************************************)

\* The records held anywhere in the run: the result list, the loop variable
\* of the generic pipeline and the list of the specialized parser.
HeldRecords ==
    { recipes[i] : i \in 1..Len(recipes) }
    \cup { recipe[i] : i \in 1..Len(recipe) }
    \cup { cp.recipes[i] : i \in 1..Len(cp.recipes) }

\* C30: every record of either pipeline has location_type "href" and a
\* location_value equal to its source_key; its source_type is "epub" in the
\* generic pipeline and "epub:crumbs_doilies" in the specialized one.
C30_LocationMirrorsSourceKey ==
    \A r \in HeldRecords :
        /\ r.location_type = "href"
        /\ r.location_value = r.source_key
        /\ r.source_type = IF specialized THEN "epub:crumbs_doilies" ELSE "epub"

\* The run over scenario 4 has returned its two records, whose source keys
\* carry a fragment.
C30_Witness ==
    /\ Returned(Book(GenericName, << Scenario4Doc >>))
    /\ Len(recipes) = 2
    /\ recipes[1].location_value = "ch1.xhtml#r1"
    /\ recipes[2].location_value = "ch1.xhtml#r2"
    /\ recipes[2].source_type = "epub"
=============================================================================
